---- MODULE Spec2Model ----
(***************************************************************************)
(* A model of the healthcare_ai backend: the SOAP-section text parser of   *)
(* backend/app/pipeline.py, the in-memory diary store and the audio        *)
(* endpoints of backend/app/main.py, and the live dictation stream.        *)
(*                                                                         *)
(* Text is modelled as a sequence of one-character strings, so that the    *)
(* parser's trimming, prefix tests and substring searches are computed     *)
(* character by character as Python computes them.                         *)
(***************************************************************************)
EXTENDS Integers, Sequences, FiniteSets, TLC

VARIABLES
    \* one call of _parse_soap_response: its arguments, where it stands, the
    \* sections dict it is filling and what it returned
    p_pc, p_soap_text, p_transcription, p_sections, p_result

VARIABLES
    \* AzureClients: whether the speech key and region, and the OpenAI endpoint
    \* and key, are configured (speech_config / openai_client is not None)
    speech_configured, openai_available

VARIABLES
    \* main.py: the module-level list diary_entries; the ids uuid4 has handed
    \* out so far; the HTTP request last handled, the response it got and the
    \* calls to external services made while handling it
    diary_entries, next_uuid, request, response, calls

VARIABLES
    \* websocket_clinical_stream, one connection: where the handler and its
    \* update task stand, whether the client is still there, whether the
    \* recognizer runs, the audio frames written, the recognizer events and
    \* the refreshes so far
    ws_pc, task_pc, connected, recognizing, frames, events, updates

VARIABLES
    \* the handler's locals (entries_ok: diary_entries reads as a list of
    \* dicts), the update task's final_chunks, the sends the callback has
    \* scheduled on the loop and the messages sent to the client
    current_transcript, current_soap, update_buffer, entries_ok, final_chunks,
    scheduled, sent
VARIABLES
    \* the update calls the task has issued and not got the answer of, each
    \* with the arguments it was issued with, and the soap_update message the
    \* task is sending (<<>> when it sends none)
    in_flight, pending_update

VARIABLES
    \* what has happened on the connection: the finalized fragments the
    \* recognizer has reported, in order, and the update calls issued so far,
    \* each with the fragments read for it, its new-text chunk and whether it
    \* failed
    finalized, refreshes

VARIABLES
    \* several connections open at once: the locals of each running call of
    \* websocket_clinical_stream (its frame), and for each connection where its
    \* handler stands, the fragments its recognizer has reported, the number of
    \* refreshes made and the messages sent to its client
    frame_locals, conn_io

----------------------------------------------------------------------------
(* Python str operations used by the code. Positions are 0-based as in     *)
(* Python; find returns -1 when there is no occurrence.                    *)

\* the characters str.strip() removes
Whitespace == {" ", "\n", "\t", "\r"}

\* str.lower() on one character
LowerMap ==
    [c \in {"A","B","C","D","E","F","G","H","I","J","K","L","M","N","O","P",
            "Q","R","S","T","U","V","W","X","Y","Z"} |->
        CASE c = "A" -> "a" [] c = "B" -> "b" [] c = "C" -> "c" [] c = "D" -> "d"
          [] c = "E" -> "e" [] c = "F" -> "f" [] c = "G" -> "g" [] c = "H" -> "h"
          [] c = "I" -> "i" [] c = "J" -> "j" [] c = "K" -> "k" [] c = "L" -> "l"
          [] c = "M" -> "m" [] c = "N" -> "n" [] c = "O" -> "o" [] c = "P" -> "p"
          [] c = "Q" -> "q" [] c = "R" -> "r" [] c = "S" -> "s" [] c = "T" -> "t"
          [] c = "U" -> "u" [] c = "V" -> "v" [] c = "W" -> "w" [] c = "X" -> "x"
          [] c = "Y" -> "y" [] c = "Z" -> "z"]

lower(s) ==
    [i \in 1..Len(s) |-> IF s[i] \in DOMAIN LowerMap THEN LowerMap[s[i]] ELSE s[i]]

\* s[a:b] for 0 <= a, b <= len(s)
slice(s, a, b) == SubSeq(s, a + 1, b)

lstrip_chars(s, chars) ==
    IF \A i \in 1..Len(s) : s[i] \in chars THEN <<>>
    ELSE SubSeq(s, CHOOSE i \in 1..Len(s) :
                       s[i] \notin chars /\ \A j \in 1..(i - 1) : s[j] \in chars,
                Len(s))

rstrip_chars(s, chars) ==
    IF \A i \in 1..Len(s) : s[i] \in chars THEN <<>>
    ELSE SubSeq(s, 1, CHOOSE i \in 1..Len(s) :
                          s[i] \notin chars /\ \A j \in (i + 1)..Len(s) : s[j] \in chars)

strip(s) == rstrip_chars(lstrip_chars(s, Whitespace), Whitespace)

startswith(s, prefix) ==
    Len(prefix) <= Len(s) /\ SubSeq(s, 1, Len(prefix)) = prefix

endswith(s, suffix) ==
    Len(suffix) <= Len(s) /\ SubSeq(s, Len(s) - Len(suffix) + 1, Len(s)) = suffix

\* is sub found in s at 0-based position i
OccursAt(s, sub, i) == SubSeq(s, i + 1, i + Len(sub)) = sub

find(s, sub, start) ==
    LET last == Len(s) - Len(sub)
    IN  IF \E i \in start..last : OccursAt(s, sub, i)
        THEN CHOOSE i \in start..last :
                 OccursAt(s, sub, i) /\ \A j \in start..(i - 1) : ~OccursAt(s, sub, j)
        ELSE -1

contains(s, sub) == find(s, sub, 0) # -1

RECURSIVE split(_, _)
split(s, sep) ==
    LET i == find(s, sep, 0)
    IN  IF i = -1 THEN <<s>>
        ELSE <<slice(s, 0, i)>> \o split(slice(s, i + Len(sep), Len(s)), sep)

RECURSIVE join(_, _)
join(sep, parts) ==
    IF parts = <<>> THEN <<>>
    ELSE IF Len(parts) = 1 THEN parts[1]
    ELSE parts[1] \o sep \o join(sep, Tail(parts))

\* str.capitalize() of the four section names
capitalize(section) ==
    CASE section = "subjective" -> <<"S","u","b","j","e","c","t","i","v","e">>
      [] section = "objective"  -> <<"O","b","j","e","c","t","i","v","e">>
      [] section = "assessment" -> <<"A","s","s","e","s","s","m","e","n","t">>
      [] section = "plan"       -> <<"P","l","a","n">>

----------------------------------------------------------------------------
(* SOAPPipeline._parse_soap_response                                       *)

\* the keys of the sections dict, in insertion (iteration) order
SectionOrder == <<"subjective", "objective", "assessment", "plan">>

Sections == {"subjective", "objective", "assessment", "plan"}

EmptySections == [s \in Sections |-> <<>>]

section_markers ==
    [subjective |-> << <<"=","=","=","s","u","b","j","e","c","t","i","v","e","=","=","=">>, <<"s","u","b","j","e","c","t","i","v","e",":">>, <<"*","*","s","u","b","j","e","c","t","i","v","e","*","*">>,
                       <<"s","u","b","j","e","c","t","i","v","e"," ","(","s",")",":">>, <<"s",":">> >>,
     objective  |-> << <<"=","=","=","o","b","j","e","c","t","i","v","e","=","=","=">>, <<"o","b","j","e","c","t","i","v","e",":">>, <<"*","*","o","b","j","e","c","t","i","v","e","*","*">>,
                       <<"o","b","j","e","c","t","i","v","e"," ","(","o",")",":">>, <<"o",":">> >>,
     assessment |-> << <<"=","=","=","a","s","s","e","s","s","m","e","n","t","=","=","=">>, <<"a","s","s","e","s","s","m","e","n","t",":">>, <<"*","*","a","s","s","e","s","s","m","e","n","t","*","*">>,
                       <<"a","s","s","e","s","s","m","e","n","t"," ","(","a",")",":">>, <<"a",":">>, <<"i","m","p","r","e","s","s","i","o","n",":">>, <<"d","i","a","g","n","o","s","i","s",":">> >>,
     plan       |-> << <<"=","=","=","p","l","a","n","=","=","=">>, <<"p","l","a","n",":">>, <<"*","*","p","l","a","n","*","*">>, <<"p","l","a","n"," ","(","p",")",":">>, <<"p",":">>,
                       <<"t","r","e","a","t","m","e","n","t"," ","p","l","a","n",":">> >>]

section_keywords ==
    [subjective |-> << <<"s","u","b","j","e","c","t","i","v","e">>, <<"c","h","i","e","f"," ","c","o","m","p","l","a","i","n","t">>,
                       <<"h","i","s","t","o","r","y"," ","o","f"," ","p","r","e","s","e","n","t"," ","i","l","l","n","e","s","s">>, <<"h","p","i">> >>,
     objective  |-> << <<"o","b","j","e","c","t","i","v","e">>, <<"p","h","y","s","i","c","a","l"," ","e","x","a","m","i","n","a","t","i","o","n">>, <<"v","i","t","a","l"," ","s","i","g","n","s">>,
                       <<"e","x","a","m">>, <<"o","b","j","e","c","t","i","v","e"," ","f","i","n","d","i","n","g","s">> >>,
     assessment |-> << <<"a","s","s","e","s","s","m","e","n","t">>, <<"i","m","p","r","e","s","s","i","o","n">>, <<"d","i","a","g","n","o","s","i","s">>,
                       <<"c","l","i","n","i","c","a","l"," ","a","s","s","e","s","s","m","e","n","t">>, <<"d","i","f","f","e","r","e","n","t","i","a","l"," ","d","i","a","g","n","o","s","i","s">>,
                       <<"p","r","i","m","a","r","y"," ","d","i","a","g","n","o","s","i","s">> >>,
     plan       |-> << <<"p","l","a","n">>, <<"t","r","e","a","t","m","e","n","t">>, <<"f","o","l","l","o","w","-","u","p">>, <<"m","a","n","a","g","e","m","e","n","t">>,
                       <<"t","r","e","a","t","m","e","n","t"," ","p","l","a","n">> >>]

\* the (section, marker) pairs in the order the nested loops of lines 864-865 try them
MarkerList ==
    LET RECURSIVE Pairs(_)
        Pairs(k) ==
            IF k > Len(SectionOrder) THEN <<>>
            ELSE [j \in 1..Len(section_markers[SectionOrder[k]]) |->
                    [section |-> SectionOrder[k],
                     marker  |-> section_markers[SectionOrder[k]][j]]]
                 \o Pairs(k + 1)
    IN  Pairs(1)

\* the first marker the line starts with, as an index of MarkerList; 0 when none
RECURSIVE FirstMarker(_, _)
FirstMarker(line_lower, k) ==
    IF k > Len(MarkerList) THEN 0
    ELSE IF startswith(line_lower, MarkerList[k].marker) THEN k
    ELSE FirstMarker(line_lower, k + 1)

\* lines 880-888: does the line start with a marker of a section other than current
StartsOtherSection(line_lower, current_section) ==
    \E k \in 1..Len(MarkerList) :
        /\ MarkerList[k].section # current_section
        /\ startswith(line_lower, MarkerList[k].marker)

\* the text that follows the marker on a marker line (line 870)
Remaining(line_stripped, marker) ==
    strip(lstrip_chars(strip(lstrip_chars(
        strip(slice(line_stripped, Len(marker), Len(line_stripped))),
        {":"})), {"-"}))

\* ScanLine with a marker line adding its trailing text to what the section
\* holds (lines 871-874 as +=)
ScanLine_SeedAppends(st, line) ==
    LET line_stripped == strip(line)
        line_lower    == lower(line_stripped)
        k             == FirstMarker(line_lower, 1)
        cur           == st.current_section
    IN  IF line_stripped = <<>>
        THEN IF st.collecting /\ cur # ""
             THEN [st EXCEPT !.sections[cur] = @ \o <<"\n">>]
             ELSE st
        ELSE IF k # 0
        THEN [sections        |-> [st.sections EXCEPT ![MarkerList[k].section] =
                                     @ \o Remaining(line_stripped, MarkerList[k].marker)],
              current_section |-> MarkerList[k].section,
              collecting      |-> TRUE]
        ELSE IF st.collecting /\ cur # ""
        THEN [st EXCEPT !.sections[cur] =
                 (IF @ # <<>> /\ ~endswith(@, <<"\n">>) THEN @ \o <<"\n">> ELSE @)
                 \o line_stripped]
        ELSE st

\* ScanLine with line 893 assigning the line instead of appending it
ScanLine_Overwrite(st, line) ==
    LET line_stripped == strip(line)
        k             == FirstMarker(lower(line_stripped), 1)
        cur           == st.current_section
    IN  IF line_stripped = <<>> THEN st
        ELSE IF k # 0
        THEN [sections        |-> [st.sections EXCEPT ![MarkerList[k].section] =
                                     Remaining(line_stripped, MarkerList[k].marker)],
              current_section |-> MarkerList[k].section,
              collecting      |-> TRUE]
        ELSE IF st.collecting /\ cur # ""
        THEN [st EXCEPT !.sections[cur] = line_stripped]
        ELSE st

\* one iteration of the loop over lines (lines 854-893);
\* st = [sections, current_section, collecting], current_section "" for None
ScanLine(st, line) ==
    LET line_stripped == strip(line)
        line_lower    == lower(line_stripped)
        k             == FirstMarker(line_lower, 1)
        cur           == st.current_section
    IN  IF line_stripped = <<>>
        THEN IF st.collecting /\ cur # ""
             THEN [st EXCEPT !.sections[cur] = @ \o <<"\n">>]
             ELSE st
        ELSE IF k # 0
        THEN [sections        |-> [st.sections EXCEPT ![MarkerList[k].section] =
                                     Remaining(line_stripped, MarkerList[k].marker)],
              current_section |-> MarkerList[k].section,
              collecting      |-> TRUE]
        ELSE IF st.collecting /\ cur # "" /\ ~StartsOtherSection(line_lower, cur)
        THEN [st EXCEPT !.sections[cur] =
                 (IF @ # <<>> /\ ~endswith(@, <<"\n">>) THEN @ \o <<"\n">> ELSE @)
                 \o line_stripped]
        ELSE st

RECURSIVE ScanLines(_, _)
ScanLines(st, lines) ==
    IF lines = <<>> THEN st ELSE ScanLines(ScanLine(st, Head(lines)), Tail(lines))

\* strategy 1, lines 850-893: the sections after the scan of the lines
MarkerScan(soap_text) ==
    ScanLines([sections |-> EmptySections, current_section |-> "", collecting |-> FALSE],
              split(soap_text, <<"\n">>)).sections

\* the test that never finds a section filled
AnySection_Never(sections) == FALSE

\* any(sections.values())
AnySection(sections) == \E s \in Sections : sections[s] # <<>>

\* all keywords of the sections other than `section`
OtherKeywords(section) ==
    UNION {{section_keywords[o][j] : j \in 1..Len(section_keywords[o])} :
           o \in Sections \ {section}}

\* NextSectionIdx without the search of lines 903-908: the section runs to the
\* end of the text
NextSectionIdx_EndOfText(soap_text, text_lower, section, start_idx) == Len(soap_text)

\* lines 902-908: the nearest occurrence at or after start_idx of a keyword
\* of another section, or len(soap_text)
NextSectionIdx(soap_text, text_lower, section, start_idx) ==
    LET hits == {find(text_lower, kw, start_idx) : kw \in OtherKeywords(section)} \ {-1}
    IN  IF hits = {} THEN Len(soap_text)
        ELSE CHOOSE i \in hits : \A j \in hits : i <= j

\* the first keyword of the section, in list order, that occurs in the text; 0 if none
RECURSIVE FirstKeyword(_, _, _)
FirstKeyword(text_lower, section, j) ==
    IF j > Len(section_keywords[section]) THEN 0
    ELSE IF contains(text_lower, section_keywords[section][j]) THEN j
    ELSE FirstKeyword(text_lower, section, j + 1)

\* lines 896-912 for one section
KeywordSection(soap_text, section) ==
    LET text_lower == lower(soap_text)
        j          == FirstKeyword(text_lower, section, 1)
    IN  IF j = 0 THEN <<>>
        ELSE LET kw        == section_keywords[section][j]
                 start_idx == find(text_lower, kw, 0) + Len(kw)
             IN  strip(lstrip_chars(
                     strip(slice(soap_text, start_idx,
                                 NextSectionIdx(soap_text, text_lower, section, start_idx))),
                     {":"}))

\* strategy 2, lines 895-912
KeywordScan(soap_text, sections) ==
    IF AnySection(sections) THEN sections
    ELSE [s \in Sections |-> KeywordSection(soap_text, s)]

\* line 915: the non-blank paragraphs, trimmed
RECURSIVE NonBlankStripped(_)
NonBlankStripped(parts) ==
    IF parts = <<>> THEN <<>>
    ELSE IF strip(Head(parts)) = <<>> THEN NonBlankStripped(Tail(parts))
    ELSE <<strip(Head(parts))>> \o NonBlankStripped(Tail(parts))

Paragraphs(soap_text) == NonBlankStripped(split(soap_text, <<"\n", "\n">>))

\* ParagraphSplit with the fourth paragraph never assigned
ParagraphSplit_NoPlan(soap_text, sections) ==
    IF AnySection(sections) THEN sections
    ELSE LET paragraphs == Paragraphs(soap_text)
             n          == Len(paragraphs)
         IN  IF n > 0
             THEN [subjective |-> paragraphs[1],
                   objective  |-> IF n > 1 THEN paragraphs[2] ELSE <<>>,
                   assessment |-> IF n > 2 THEN paragraphs[3] ELSE <<>>,
                   plan       |-> <<>>]
             ELSE [sections EXCEPT !.subjective = soap_text]

\* ParagraphSplit without the else of lines 929-930
ParagraphSplit_NoTotalFallback(soap_text, sections) ==
    IF AnySection(sections) THEN sections
    ELSE LET paragraphs == Paragraphs(soap_text)
             n          == Len(paragraphs)
         IN  IF n > 0
             THEN [subjective |-> paragraphs[1],
                   objective  |-> IF n > 1 THEN paragraphs[2] ELSE <<>>,
                   assessment |-> IF n > 2 THEN paragraphs[3] ELSE <<>>,
                   plan       |-> IF n > 3 THEN paragraphs[4] ELSE <<>>]
             ELSE sections

\* strategy 3 and the total fallback, lines 914-930
ParagraphSplit(soap_text, sections) ==
    IF AnySection(sections) THEN sections
    ELSE LET paragraphs == Paragraphs(soap_text)
             n          == Len(paragraphs)
         IN  IF n > 0
             THEN [subjective |-> paragraphs[1],
                   objective  |-> IF n > 1 THEN paragraphs[2] ELSE <<>>,
                   assessment |-> IF n > 2 THEN paragraphs[3] ELSE <<>>,
                   plan       |-> IF n > 3 THEN paragraphs[4] ELSE <<>>]
             ELSE [sections EXCEPT !.subjective = soap_text]

InformationToBeDocumented == <<" ","i","n","f","o","r","m","a","t","i","o","n"," ","t","o"," ","b","e"," ","d","o","c","u","m","e","n","t","e","d",".">>

Placeholder(section) == capitalize(section) \o InformationToBeDocumented

PatientSymptomsPlaceholder == <<"P","a","t","i","e","n","t"," ","s","y","m","p","t","o","m","s"," ","a","n","d"," ","c","o","m","p","l","a","i","n","t","s"," ","t","o"," ","b","e"," ","d","o","c","u","m","e","n","t","e","d",".">>

\* FillSection without the placeholder of line 938
FillSection_NoPlaceholder(section, value, transcription) ==
    IF strip(value) # <<>> THEN strip(value)
    ELSE IF section = "subjective" /\ transcription # <<>> THEN transcription
    ELSE <<>>

\* lines 932-938 for one section
FillSection(section, value, transcription) ==
    IF strip(value) # <<>> THEN strip(value)
    ELSE IF section = "subjective" /\ transcription # <<>> THEN transcription
    ELSE Placeholder(section)

\* PostProcess returning the sections untrimmed when they are not empty
PostProcess_NoTrim(sections, transcription) ==
    [s \in Sections |->
        IF strip(sections[s]) # <<>> THEN sections[s]
        ELSE FillSection(s, sections[s], transcription)]

\* post-processing, lines 932-941
PostProcess(sections, transcription) ==
    LET filled == [s \in Sections |-> FillSection(s, sections[s], transcription)]
    IN  IF filled.subjective = <<>> \/ filled.subjective = Placeholder("subjective")
        THEN [filled EXCEPT !.subjective =
                 IF transcription # <<>> THEN transcription
                 ELSE PatientSymptomsPlaceholder]
        ELSE filled

parse_soap_response(soap_text, transcription) ==
    PostProcess(ParagraphSplit(soap_text, KeywordScan(soap_text, MarkerScan(soap_text))),
                transcription)

----------------------------------------------------------------------------
(* The state.                                                              *)

parser_vars == <<p_pc, p_soap_text, p_transcription, p_sections, p_result>>

config_vars == <<speech_configured, openai_available>>

service_vars == <<diary_entries, next_uuid, request, response, calls>>

stream_vars ==
    <<ws_pc, task_pc, connected, recognizing, frames, events, updates,
      current_transcript, current_soap, update_buffer, entries_ok, final_chunks,
      scheduled, sent, in_flight, pending_update, finalized, refreshes,
      frame_locals, conn_io>>

conn_vars == <<frame_locals, conn_io>>

vars == <<parser_vars, config_vars, service_vars, stream_vars>>

\* no parser call under way
ParserIdle ==
    /\ p_pc = "idle"
    /\ p_soap_text = <<>>
    /\ p_transcription = <<>>
    /\ p_sections = EmptySections
    /\ p_result = EmptySections

\* no connection accepted
SingleStreamIdle ==
    /\ ws_pc = "idle"
    /\ task_pc = "none"
    /\ connected = FALSE
    /\ recognizing = FALSE
    /\ frames = 0
    /\ events = 0
    /\ updates = 0
    /\ current_transcript = <<>>
    /\ current_soap = EmptySections
    /\ update_buffer = <<>>
    /\ entries_ok = TRUE
    /\ final_chunks = <<>>
    /\ scheduled = <<>>
    /\ sent = <<>>
    /\ in_flight = <<>>
    /\ pending_update = <<>>
    /\ finalized = <<>>
    /\ refreshes = <<>>

StreamIdle ==
    /\ SingleStreamIdle
    /\ frame_locals = <<>>
    /\ conn_io = <<>>

\* the service as constructed: nothing stored, no request handled
ServiceIdle ==
    /\ diary_entries = <<>>
    /\ next_uuid = 1
    /\ request = [op |-> "none"]
    /\ response = [status |-> 0]
    /\ calls = <<>>

----------------------------------------------------------------------------
(* The inputs of the parser: LLM response texts built from marker lines,   *)
(* content blocks, paragraphs and lines.                                   *)

MaxLines == 3
MaxParagraphs == 5

\* all sequences over S of length 0..n
RECURSIVE SeqsUpTo(_, _)
SeqsUpTo(S, n) ==
    IF n = 0 THEN {<<>>}
    ELSE LET shorter == SeqsUpTo(S, n - 1)
         IN  shorter \cup {Append(q, x) : q \in {r \in shorter : Len(r) = n - 1}, x \in S}

\* what stands between two explicit marker lines
ContentBlocks ==
    { <<>>, <<"a","b">>, <<" ","a","b","\n"," ","c","d"," ">>, <<"a","b","\n","\n","c","d">>, <<"p",":"," ","x">> }

\* how the LLM writes the four explicit marker lines
MarkerStyles ==
    { [subjective |-> <<"=","=","=","S","U","B","J","E","C","T","I","V","E","=","=","=">>, objective |-> <<"=","=","=","O","B","J","E","C","T","I","V","E","=","=","=">>,
       assessment |-> <<"=","=","=","A","S","S","E","S","S","M","E","N","T","=","=","=">>, plan |-> <<"=","=","=","P","L","A","N","=","=","=">>],
      [subjective |-> <<" ","=","=","=","S","u","b","j","e","c","t","i","v","e","=","=","="," ","e","f">>, objective |-> <<"=","=","=","o","b","j","e","c","t","i","v","e","=","=","=">>,
       assessment |-> <<"=","=","=","A","s","s","e","s","s","m","e","n","t","=","=","="," "," ">>, plan |-> <<"=","=","=","P","L","A","N","=","=","=","\n">>],
      [subjective |-> <<"=","=","=","S","U","B","J","E","C","T","I","V","E","=","=","=">>, objective |-> <<"=","=","=","O","B","J","E","C","T","I","V","E","=","=","=",":"," ","-"," ","g","h">>,
       assessment |-> <<"=","=","=","A","S","S","E","S","S","M","E","N","T","=","=","=">>, plan |-> <<"=","=","=","P","L","A","N","=","=","=">>] }

MarkerDocs ==
    { join(<<"\n">>, <<style.subjective, c[1], style.objective, c[2],
                       style.assessment, c[3], style.plan, c[4]>>) :
        style \in MarkerStyles,
        c \in [1..4 -> ContentBlocks] }

ParaVocab == { <<"a","b">>, <<" ","c","d","\n","e","f">>, <<" ">>, <<"e","x","a","m"," ","o","k">> }

ParagraphDocs ==
    { join(<<"\n", "\n">>, q) : q \in SeqsUpTo(ParaVocab, MaxParagraphs) }

LineVocab ==
    { <<>>, <<"a","b">>, <<"S",":"," ","c","d">>, <<"p","l","a","n">>, <<" "," ","D","i","a","g","n","o","s","i","s",":"," ","e","f">>, <<"h","p","i"," ","x"," ","e","x","a","m"," ","y">>,
      <<"s",":"," ","S","u","b","j","e","c","t","i","v","e"," ","i","n","f","o","r","m","a","t","i","o","n"," ","t","o"," ","b","e"," ","d","o","c","u","m","e","n","t","e","d",".">> }

LineDocs ==
    { join(<<"\n">>, q) : q \in SeqsUpTo(LineVocab, MaxLines) }

\* texts with lines ahead of the first marker line, a section marked twice,
\* content lines that start with a short marker, and a lone marker
ScanDocs ==
    { <<"n","o","t","e","\n","S",":"," ","a","b","\n"," ","c","d"," ","\n","\n","e","f","\n","O",":"," ","g","h","\n","i","j","\n","A",":"," ","k","l","\n","S",":"," ","m","n","\n","o","p">>,
      <<"i","n","t","r","o","\n","m","o","r","e","\n","S","u","b","j","e","c","t","i","v","e",":"," ","a","b","\n","c","d","\n","P","l","a","n",":"," ","-"," ","e","f","\n","g","h">>,
      <<"A",":"," ","a","b","\n","c","d","\n","d","i","a","g","n","o","s","i","s",":"," ","f","l","u","\n","r","e","s","t","\n","P",":"," ","e","f">>,
      <<"S",":"," ","a","b","\n","S",":">>,
      <<"S",":"," ","a","b","\n","O",":"," ","c","d","\n","S",":">>,
      <<"a","b","\n","c","d">> }

\* texts without a marker line in which section keywords occur, some of a
\* section in another order than in its keyword list
KeywordDocs ==
    { <<"h","p","i",":"," ","t","w","o"," ","d","a","y","s","."," ","c","h","i","e","f"," ","c","o","m","p","l","a","i","n","t",":"," ","c","o","u","g","h","."," ","e","x","a","m",":"," ","c","l","e","a","r","."," ","t","r","e","a","t","m","e","n","t",":"," ","r","e","s","t","."," ","p","l","a","n",":"," ","f","l","u","i","d","s">>,
      <<"s","e","e","n"," ","f","o","r"," ","c","o","u","g","h",";"," ","e","x","a","m"," ","c","l","e","a","r",";"," ","i","m","p","r","e","s","s","i","o","n"," ","f","l","u",";"," ","f","o","l","l","o","w","-","u","p"," ","i","n"," ","a"," ","w","e","e","k">>,
      <<"V","i","t","a","l"," ","S","i","g","n","s"," ",":",":"," ","s","t","a","b","l","e","\n","t","h","e","n"," ","m","a","n","a","g","e","m","e","n","t",":"," ","r","e","s","t">> }

SoapTexts == MarkerDocs \cup ParagraphDocs \cup LineDocs \cup ScanDocs \cup KeywordDocs

Transcriptions == { <<>>, <<" ">>, <<"t","x">> }

----------------------------------------------------------------------------
(* _parse_soap_response, one strategy per step.                            *)

ParserInit ==
    /\ p_pc = "call"
    /\ p_soap_text \in SoapTexts
    /\ p_transcription \in Transcriptions
    /\ p_sections = EmptySections
    /\ p_result = EmptySections
    /\ speech_configured = FALSE
    /\ openai_available = FALSE
    /\ ServiceIdle
    /\ StreamIdle

\* lines 850-893
MarkerScanStep ==
    /\ p_pc = "call"
    /\ p_sections' = MarkerScan(p_soap_text)
    /\ p_pc' = "scanned"
    /\ UNCHANGED <<p_soap_text, p_transcription, p_result, config_vars, service_vars, stream_vars>>

\* lines 895-912
KeywordScanStep ==
    /\ p_pc = "scanned"
    /\ p_sections' = KeywordScan(p_soap_text, p_sections)
    /\ p_pc' = "keyworded"
    /\ UNCHANGED <<p_soap_text, p_transcription, p_result, config_vars, service_vars, stream_vars>>

\* lines 914-930
ParagraphSplitStep ==
    /\ p_pc = "keyworded"
    /\ p_sections' = ParagraphSplit(p_soap_text, p_sections)
    /\ p_pc' = "split"
    /\ UNCHANGED <<p_soap_text, p_transcription, p_result, config_vars, service_vars, stream_vars>>

\* lines 932-943
PostProcessStep ==
    /\ p_pc = "split"
    /\ p_result' = PostProcess(p_sections, p_transcription)
    /\ p_pc' = "done"
    /\ UNCHANGED <<p_soap_text, p_transcription, p_sections, config_vars, service_vars, stream_vars>>

ParserNext ==
    \/ MarkerScanStep
    \/ KeywordScanStep
    \/ ParagraphSplitStep
    \/ PostProcessStep

ParserSpec == ParserInit /\ [][ParserNext]_vars

----------------------------------------------------------------------------
(* SOAPPipeline._generate_fallback_soap: the rule-based note. Every caller *)
(* passes health_entities = None, so symptoms_found is empty.              *)

\* `"w" in transcription_lower` for some w of words
HasAny(t, words) ==
    \E w \in words : contains(lower(t), w)

\* lines 657-668
Flags(t) ==
    [fever     |-> HasAny(t, {<<"f","e","v","e","r">>, <<"t","e","m","p","e","r","a","t","u","r","e">>, <<"h","o","t">>}),
     pain      |-> HasAny(t, {<<"p","a","i","n">>, <<"h","u","r","t","s">>, <<"a","c","h","e">>, <<"s","o","r","e">>}),
     swelling  |-> HasAny(t, {<<"s","w","e","l","l","i","n","g">>, <<"s","w","o","l","l","e","n">>}),
     cough     |-> HasAny(t, {<<"c","o","u","g","h">>}),
     headache  |-> HasAny(t, {<<"h","e","a","d","a","c","h","e">>})
                   \/ (HasAny(t, {<<"h","e","a","d">>}) /\ HasAny(t, {<<"a","c","h","e">>})),
     nausea    |-> HasAny(t, {<<"n","a","u","s","e","a">>, <<"n","a","u","s","e","o","u","s">>}),
     diarrhea  |-> HasAny(t, {<<"d","i","a","r","r","h","e","a">>, <<"d","i","a","r","r","h","o","e","a">>}),
     rash      |-> HasAny(t, {<<"r","a","s","h">>}),
     neck      |-> HasAny(t, {<<"n","e","c","k">>}),
     chest     |-> HasAny(t, {<<"c","h","e","s","t">>, <<"b","r","e","a","s","t">>}),
     abdominal |-> HasAny(t, {<<"s","t","o","m","a","c","h">>, <<"a","b","d","o","m","e","n">>, <<"b","e","l","l","y">>}),
     facial    |-> HasAny(t, {<<"c","h","e","e","k">>, <<"f","a","c","e">>, <<"j","a","w">>})]

\* the items of a list whose condition holds, in order
RECURSIVE Chosen(_)
Chosen(items) ==
    IF items = <<>> THEN <<>>
    ELSE (IF Head(items)[1] THEN <<Head(items)[2]>> ELSE <<>>) \o Chosen(Tail(items))

\* line 670
FallbackSubjective(t) ==
    <<"C","h","i","e","f"," ","C","o","m","p","l","a","i","n","t",":"," ">> \o t \o <<"\n","H","i","s","t","o","r","y"," ","o","f"," ","P","r","e","s","e","n","t"," ","I","l","l","n","e","s","s",":"," ","P","a","t","i","e","n","t"," ","r","e","p","o","r","t","s"," ">>
    \o lower(t)

\* lines 672-692
FallbackObjective(f) ==
    LET objective_parts == Chosen(<<
            <<f.fever, <<"T","e","m","p","e","r","a","t","u","r","e"," ","m","e","a","s","u","r","e","m","e","n","t"," ","i","n","d","i","c","a","t","e","d">>>>,
            <<f.pain, <<"P","a","i","n"," ","a","s","s","e","s","s","m","e","n","t"," ","a","n","d"," ","l","o","c","a","t","i","o","n","-","s","p","e","c","i","f","i","c"," ","e","x","a","m","i","n","a","t","i","o","n">>>>,
            <<f.swelling, <<"E","x","a","m","i","n","a","t","i","o","n"," ","o","f"," ","a","f","f","e","c","t","e","d"," ","a","r","e","a"," ","f","o","r"," ","s","w","e","l","l","i","n","g",","," ","e","r","y","t","h","e","m","a",","," ","w","a","r","m","t","h">>>>,
            <<f.neck, <<"N","e","c","k"," ","e","x","a","m","i","n","a","t","i","o","n"," ","a","n","d"," ","l","y","m","p","h"," ","n","o","d","e"," ","p","a","l","p","a","t","i","o","n">>>>,
            <<f.facial, <<"F","a","c","i","a","l"," ","a","n","d"," ","p","a","r","o","t","i","d"," ","g","l","a","n","d"," ","e","x","a","m","i","n","a","t","i","o","n">>>>,
            <<f.chest, <<"C","h","e","s","t"," ","a","u","s","c","u","l","t","a","t","i","o","n"," ","a","n","d"," ","r","e","s","p","i","r","a","t","o","r","y"," ","a","s","s","e","s","s","m","e","n","t">>>>,
            <<f.abdominal, <<"A","b","d","o","m","i","n","a","l"," ","e","x","a","m","i","n","a","t","i","o","n"," ","a","n","d"," ","p","a","l","p","a","t","i","o","n">>>>,
            <<f.cough, <<"R","e","s","p","i","r","a","t","o","r","y"," ","e","x","a","m","i","n","a","t","i","o","n"," ","a","n","d"," ","l","u","n","g"," ","a","u","s","c","u","l","t","a","t","i","o","n">>>>,
            <<f.rash, <<"S","k","i","n"," ","e","x","a","m","i","n","a","t","i","o","n"," ","a","n","d"," ","r","a","s","h"," ","c","h","a","r","a","c","t","e","r","i","z","a","t","i","o","n">>>> >>)
    IN  IF objective_parts # <<>>
        THEN <<"V","i","t","a","l"," ","s","i","g","n","s"," ","a","s","s","e","s","s","m","e","n","t","."," ">> \o join(<<"."," ">>, objective_parts)
             \o <<"."," ","G","e","n","e","r","a","l"," ","p","h","y","s","i","c","a","l"," ","e","x","a","m","i","n","a","t","i","o","n",".">>
        ELSE <<"C","o","m","p","l","e","t","e"," ","p","h","y","s","i","c","a","l"," ","e","x","a","m","i","n","a","t","i","o","n"," ","a","n","d"," ","v","i","t","a","l"," ","s","i","g","n","s"," ","a","s","s","e","s","s","m","e","n","t",".">>

\* lines 694-734
FallbackAssessment(f) ==
    LET symptom_list == Chosen(<<
            <<f.fever, <<"f","e","v","e","r">>>>, <<f.pain, <<"p","a","i","n">>>>, <<f.swelling, <<"s","w","e","l","l","i","n","g">>>>,
            <<f.cough, <<"c","o","u","g","h">>>>, <<f.headache, <<"h","e","a","d","a","c","h","e">>>>,
            <<f.nausea, <<"n","a","u","s","e","a">>>> >>)
        assessment_parts ==
            IF f.swelling /\ f.facial /\ f.fever THEN <<
                <<"P","r","i","m","a","r","y"," ","D","i","a","g","n","o","s","i","s",":"," ","M","u","m","p","s",","," ","p","a","r","o","t","i","t","i","s",","," ","o","r"," ","s","i","a","l","a","d","e","n","i","t","i","s">>,
                <<"D","i","f","f","e","r","e","n","t","i","a","l"," ","D","i","a","g","n","o","s","e","s",":"," ","1",")"," ","L","y","m","p","h","a","d","e","n","i","t","i","s"," ","2",")"," ","V","i","r","a","l"," ","p","a","r","o","t","i","t","i","s"," ","3",")"," ","B","a","c","t","e","r","i","a","l"," ","s","i","a","l","a","d","e","n","i","t","i","s">>,
                <<"C","l","i","n","i","c","a","l"," ","R","e","a","s","o","n","i","n","g",":"," ","B","i","l","a","t","e","r","a","l"," ","o","r"," ","u","n","i","l","a","t","e","r","a","l"," ","f","a","c","i","a","l"," ","s","w","e","l","l","i","n","g"," ","w","i","t","h"," ","f","e","v","e","r"," ","a","n","d"," ","n","e","c","k"," ","i","n","v","o","l","v","e","m","e","n","t"," ","s","u","g","g","e","s","t","s"," ","i","n","f","e","c","t","i","o","u","s"," ","p","r","o","c","e","s","s"," ","a","f","f","e","c","t","i","n","g"," ","s","a","l","i","v","a","r","y"," ","g","l","a","n","d","s"," ","o","r"," ","l","y","m","p","h"," ","n","o","d","e","s">> >>
            ELSE IF f.fever /\ f.neck /\ f.pain THEN <<
                <<"P","r","i","m","a","r","y"," ","D","i","a","g","n","o","s","i","s",":"," ","C","e","r","v","i","c","a","l"," ","l","y","m","p","h","a","d","e","n","i","t","i","s"," ","o","r"," ","u","p","p","e","r"," ","r","e","s","p","i","r","a","t","o","r","y"," ","i","n","f","e","c","t","i","o","n">>,
                <<"D","i","f","f","e","r","e","n","t","i","a","l"," ","D","i","a","g","n","o","s","e","s",":"," ","1",")"," ","V","i","r","a","l"," ","i","n","f","e","c","t","i","o","n"," ","(","E","B","V",","," ","C","M","V",")"," ","2",")"," ","B","a","c","t","e","r","i","a","l"," ","l","y","m","p","h","a","d","e","n","i","t","i","s"," ","3",")"," ","I","n","f","l","a","m","m","a","t","o","r","y"," ","c","o","n","d","i","t","i","o","n">>,
                <<"C","l","i","n","i","c","a","l"," ","R","e","a","s","o","n","i","n","g",":"," ","F","e","v","e","r"," ","w","i","t","h"," ","n","e","c","k"," ","p","a","i","n"," ","a","n","d"," ","p","o","s","s","i","b","l","e"," ","l","y","m","p","h"," ","n","o","d","e"," ","i","n","v","o","l","v","e","m","e","n","t"," ","i","n","d","i","c","a","t","e","s"," ","i","n","f","e","c","t","i","o","u","s"," ","o","r"," ","i","n","f","l","a","m","m","a","t","o","r","y"," ","p","r","o","c","e","s","s">> >>
            ELSE IF f.headache /\ f.nausea THEN <<
                <<"P","r","i","m","a","r","y"," ","D","i","a","g","n","o","s","i","s",":"," ","M","i","g","r","a","i","n","e"," ","o","r"," ","t","e","n","s","i","o","n"," ","h","e","a","d","a","c","h","e">>,
                <<"D","i","f","f","e","r","e","n","t","i","a","l"," ","D","i","a","g","n","o","s","e","s",":"," ","1",")"," ","T","e","n","s","i","o","n"," ","h","e","a","d","a","c","h","e"," ","2",")"," ","V","i","r","a","l"," ","s","y","n","d","r","o","m","e"," ","3",")"," ","I","n","t","r","a","c","r","a","n","i","a","l"," ","p","a","t","h","o","l","o","g","y"," ","(","l","e","s","s"," ","l","i","k","e","l","y",")">>,
                <<"C","l","i","n","i","c","a","l"," ","R","e","a","s","o","n","i","n","g",":"," ","H","e","a","d","a","c","h","e"," ","w","i","t","h"," ","n","a","u","s","e","a"," ","i","s"," ","c","l","a","s","s","i","c"," ","m","i","g","r","a","i","n","e"," ","p","r","e","s","e","n","t","a","t","i","o","n",","," ","t","h","o","u","g","h"," ","o","t","h","e","r"," ","c","a","u","s","e","s"," ","s","h","o","u","l","d"," ","b","e"," ","c","o","n","s","i","d","e","r","e","d">> >>
            ELSE IF f.cough /\ f.fever THEN <<
                <<"P","r","i","m","a","r","y"," ","D","i","a","g","n","o","s","i","s",":"," ","U","p","p","e","r"," ","r","e","s","p","i","r","a","t","o","r","y"," ","i","n","f","e","c","t","i","o","n"," ","o","r"," ","p","n","e","u","m","o","n","i","a">>,
                <<"D","i","f","f","e","r","e","n","t","i","a","l"," ","D","i","a","g","n","o","s","e","s",":"," ","1",")"," ","V","i","r","a","l"," ","U","R","I"," ","2",")"," ","B","a","c","t","e","r","i","a","l"," ","p","n","e","u","m","o","n","i","a"," ","3",")"," ","B","r","o","n","c","h","i","t","i","s">>,
                <<"C","l","i","n","i","c","a","l"," ","R","e","a","s","o","n","i","n","g",":"," ","C","o","u","g","h"," ","w","i","t","h"," ","f","e","v","e","r"," ","s","u","g","g","e","s","t","s"," ","r","e","s","p","i","r","a","t","o","r","y"," ","t","r","a","c","t"," ","i","n","f","e","c","t","i","o","n">> >>
            ELSE IF f.diarrhea /\ f.fever THEN <<
                <<"P","r","i","m","a","r","y"," ","D","i","a","g","n","o","s","i","s",":"," ","G","a","s","t","r","o","e","n","t","e","r","i","t","i","s">>,
                <<"D","i","f","f","e","r","e","n","t","i","a","l"," ","D","i","a","g","n","o","s","e","s",":"," ","1",")"," ","V","i","r","a","l"," ","g","a","s","t","r","o","e","n","t","e","r","i","t","i","s"," ","2",")"," ","B","a","c","t","e","r","i","a","l"," ","i","n","f","e","c","t","i","o","n"," ","3",")"," ","F","o","o","d"," ","p","o","i","s","o","n","i","n","g">>,
                <<"C","l","i","n","i","c","a","l"," ","R","e","a","s","o","n","i","n","g",":"," ","D","i","a","r","r","h","e","a"," ","w","i","t","h"," ","f","e","v","e","r"," ","i","n","d","i","c","a","t","e","s"," ","g","a","s","t","r","o","i","n","t","e","s","t","i","n","a","l"," ","i","n","f","e","c","t","i","o","n">> >>
            ELSE IF f.rash /\ f.fever THEN <<
                <<"P","r","i","m","a","r","y"," ","D","i","a","g","n","o","s","i","s",":"," ","V","i","r","a","l"," ","e","x","a","n","t","h","e","m"," ","o","r"," ","d","r","u","g"," ","r","e","a","c","t","i","o","n">>,
                <<"D","i","f","f","e","r","e","n","t","i","a","l"," ","D","i","a","g","n","o","s","e","s",":"," ","1",")"," ","V","i","r","a","l"," ","r","a","s","h"," ","(","m","e","a","s","l","e","s",","," ","r","u","b","e","l","l","a",","," ","e","t","c",".",")"," ","2",")"," ","D","r","u","g"," ","r","e","a","c","t","i","o","n"," ","3",")"," ","A","l","l","e","r","g","i","c"," ","r","e","a","c","t","i","o","n">>,
                <<"C","l","i","n","i","c","a","l"," ","R","e","a","s","o","n","i","n","g",":"," ","F","e","v","e","r"," ","w","i","t","h"," ","r","a","s","h"," ","s","u","g","g","e","s","t","s"," ","v","i","r","a","l"," ","i","l","l","n","e","s","s"," ","o","r"," ","h","y","p","e","r","s","e","n","s","i","t","i","v","i","t","y"," ","r","e","a","c","t","i","o","n">> >>
            ELSE <<
                <<"P","r","i","m","a","r","y"," ","D","i","a","g","n","o","s","i","s",":"," ","C","l","i","n","i","c","a","l"," ","a","s","s","e","s","s","m","e","n","t"," ","b","a","s","e","d"," ","o","n"," ","s","y","m","p","t","o","m"," ","p","a","t","t","e","r","n"," ","(">>
                    \o join(<<","," ">>, SubSeq(symptom_list, 1,
                                           IF Len(symptom_list) < 4 THEN Len(symptom_list) ELSE 4))
                    \o <<")">>,
                <<"D","i","f","f","e","r","e","n","t","i","a","l"," ","D","i","a","g","n","o","s","e","s",":"," ","F","u","r","t","h","e","r"," ","e","v","a","l","u","a","t","i","o","n"," ","n","e","e","d","e","d"," ","t","o"," ","n","a","r","r","o","w"," ","d","i","f","f","e","r","e","n","t","i","a","l">>,
                <<"C","l","i","n","i","c","a","l"," ","R","e","a","s","o","n","i","n","g",":"," ","S","y","m","p","t","o","m"," ","c","o","n","s","t","e","l","l","a","t","i","o","n"," ","r","e","q","u","i","r","e","s"," ","c","o","m","p","r","e","h","e","n","s","i","v","e"," ","e","v","a","l","u","a","t","i","o","n">> >>
    IN  join(<<"."," ">>, assessment_parts)

\* lines 736-760
FallbackPlan(f) ==
    LET plan_items ==
            Chosen(<<
                <<f.fever, <<"A","n","t","i","p","y","r","e","t","i","c",":"," ","A","c","e","t","a","m","i","n","o","p","h","e","n"," ","5","0","0","-","1","0","0","0","m","g"," ","q","6","h"," ","o","r"," ","I","b","u","p","r","o","f","e","n"," ","4","0","0","-","6","0","0","m","g"," ","q","6","h"," ","f","o","r"," ","f","e","v","e","r">>>>,
                <<f.pain, <<"A","n","a","l","g","e","s","i","a"," ","a","s"," ","n","e","e","d","e","d"," ","f","o","r"," ","p","a","i","n"," ","m","a","n","a","g","e","m","e","n","t">>>> >>)
            \o (IF f.swelling /\ f.facial THEN <<
                    <<"W","a","r","m"," ","c","o","m","p","r","e","s","s","e","s"," ","t","o"," ","a","f","f","e","c","t","e","d"," ","a","r","e","a">>,
                    <<"C","o","n","s","i","d","e","r"," ","v","i","r","a","l"," ","s","e","r","o","l","o","g","y"," ","(","m","u","m","p","s",","," ","E","B","V",")"," ","a","n","d"," ","C","B","C"," ","w","i","t","h"," ","d","i","f","f","e","r","e","n","t","i","a","l">> >>
                ELSE IF f.fever /\ f.neck THEN <<
                    <<"C","B","C",","," ","i","n","f","l","a","m","m","a","t","o","r","y"," ","m","a","r","k","e","r","s"," ","(","E","S","R",","," ","C","R","P",")",","," ","a","n","d"," ","c","o","n","s","i","d","e","r"," ","i","m","a","g","i","n","g"," ","i","f"," ","a","b","s","c","e","s","s"," ","s","u","s","p","e","c","t","e","d">> >>
                ELSE IF f.headache THEN <<
                    <<"H","e","a","d","a","c","h","e"," ","m","a","n","a","g","e","m","e","n","t"," ","w","i","t","h"," ","a","p","p","r","o","p","r","i","a","t","e"," ","a","n","a","l","g","e","s","i","c","s">>,
                    <<"C","o","n","s","i","d","e","r"," ","n","e","u","r","o","i","m","a","g","i","n","g"," ","i","f"," ","r","e","d"," ","f","l","a","g"," ","s","y","m","p","t","o","m","s"," ","p","r","e","s","e","n","t">> >>
                ELSE IF f.cough THEN <<
                    <<"C","h","e","s","t"," ","X","-","r","a","y"," ","i","f"," ","p","n","e","u","m","o","n","i","a"," ","s","u","s","p","e","c","t","e","d",","," ","s","y","m","p","t","o","m","a","t","i","c"," ","t","r","e","a","t","m","e","n","t">> >>
                ELSE IF f.diarrhea THEN <<
                    <<"S","t","o","o","l"," ","s","t","u","d","i","e","s"," ","i","f"," ","i","n","d","i","c","a","t","e","d",","," ","h","y","d","r","a","t","i","o","n",","," ","a","n","t","i","-","d","i","a","r","r","h","e","a","l"," ","i","f"," ","a","p","p","r","o","p","r","i","a","t","e">> >>
                ELSE <<
                    <<"S","y","m","p","t","o","m","a","t","i","c"," ","t","r","e","a","t","m","e","n","t"," ","b","a","s","e","d"," ","o","n"," ","s","p","e","c","i","f","i","c"," ","s","y","m","p","t","o","m","s">>,
                    <<"D","i","a","g","n","o","s","t","i","c"," ","w","o","r","k","u","p"," ","a","s"," ","c","l","i","n","i","c","a","l","l","y"," ","i","n","d","i","c","a","t","e","d">> >>)
            \o << <<"F","o","l","l","o","w","-","u","p"," ","i","n"," ","3","-","5"," ","d","a","y","s"," ","o","r"," ","s","o","o","n","e","r"," ","i","f"," ","s","y","m","p","t","o","m","s"," ","w","o","r","s","e","n">>,
                  <<"P","a","t","i","e","n","t"," ","e","d","u","c","a","t","i","o","n"," ","o","n"," ","s","y","m","p","t","o","m"," ","m","a","n","a","g","e","m","e","n","t"," ","a","n","d"," ","w","h","e","n"," ","t","o"," ","s","e","e","k"," ","i","m","m","e","d","i","a","t","e"," ","c","a","r","e">> >>
    IN  <<"1","."," ">> \o join(<<" ","2","."," ">>, plan_items)

generate_fallback_soap(t) ==
    [subjective |-> FallbackSubjective(t),
     objective  |-> FallbackObjective(Flags(t)),
     assessment |-> FallbackAssessment(Flags(t)),
     plan       |-> FallbackPlan(Flags(t))]

----------------------------------------------------------------------------
(* utils_audio.py and AzureClients.transcribe_audio. An audio_data form    *)
(* field is described by what decoding it gives: whether base64 decoding   *)
(* raises, the number of decoded bytes, and the WAV header if there is one.*)

MinAudioBytes == 1000
MinSampleRate == 8000
MaxSampleRate == 48000

\* no audio_data field, or an empty one
NoAudio ==
    [present |-> FALSE, decodable |-> FALSE, length |-> 0,
     is_wav |-> FALSE, sample_rate |-> 0, channels |-> 0]

\* a field base64.b64decode raises on (incorrect padding, a data URL
\* without a comma)
Undecodable ==
    [present |-> TRUE, decodable |-> FALSE, length |-> 0,
     is_wav |-> FALSE, sample_rate |-> 0, channels |-> 0]

Raw(n) ==
    [present |-> TRUE, decodable |-> TRUE, length |-> n,
     is_wav |-> FALSE, sample_rate |-> 0, channels |-> 0]

Wav(n, rate, ch) ==
    [present |-> TRUE, decodable |-> TRUE, length |-> n,
     is_wav |-> TRUE, sample_rate |-> rate, channels |-> ch]

Audios ==
    { Undecodable, Raw(999), Raw(1000), Wav(2000, 16000, 1),
      Wav(2000, 7999, 1), Wav(2000, 48001, 2), Wav(2000, 8000, 3) }

\* what recognize_once_async().get() comes back with
SpeechOutcomes ==
    { [reason |-> "RecognizedSpeech", text |-> <<" ","f","e","v","e","r",","," ","c","o","u","g","h"," ">>],
      [reason |-> "RecognizedSpeech", text |-> <<" ">>],
      [reason |-> "NoMatch", text |-> <<>>],
      [reason |-> "Canceled", text |-> <<>>] }

decode_audio_base64(audio) ==
    IF audio.decodable THEN [ok |-> TRUE, audio_bytes |-> audio]
    ELSE [ok |-> FALSE, audio_bytes |-> NoAudio]

\* is_valid of validate_audio_format
validate_audio_format(audio_bytes) ==
    IF audio_bytes.is_wav
    THEN IF audio_bytes.sample_rate < MinSampleRate \/ audio_bytes.sample_rate > MaxSampleRate
         THEN FALSE
         ELSE IF audio_bytes.channels \notin {1, 2} THEN FALSE
         ELSE TRUE
    ELSE TRUE

\* the length check made only after the recognizer has run
transcribe_audio_LateLengthCheck(audio_bytes, configured, outcome) ==
    IF ~configured
    THEN [ok |-> FALSE, text |-> <<>>, error |-> "not configured", calls |-> <<>>]
    ELSE IF outcome.reason = "RecognizedSpeech" /\ strip(outcome.text) # <<>>
             /\ audio_bytes.length >= MinAudioBytes
         THEN [ok |-> TRUE, text |-> strip(outcome.text), error |-> "", calls |-> <<"speech">>]
         ELSE [ok |-> FALSE, text |-> <<>>, error |-> "failed", calls |-> <<"speech">>]

\* the text, or the ValueError raised, and the calls to the speech service
transcribe_audio(audio_bytes, configured, outcome) ==
    IF ~configured
    THEN [ok |-> FALSE, text |-> <<>>, error |-> "not configured", calls |-> <<>>]
    ELSE IF audio_bytes.length < MinAudioBytes
    THEN [ok |-> FALSE, text |-> <<>>, error |-> "too short", calls |-> <<>>]
    ELSE IF outcome.reason = "RecognizedSpeech"
    THEN IF strip(outcome.text) = <<>>
         THEN [ok |-> FALSE, text |-> <<>>, error |-> "no text", calls |-> <<"speech">>]
         ELSE [ok |-> TRUE, text |-> strip(outcome.text), error |-> "", calls |-> <<"speech">>]
    ELSE IF outcome.reason = "NoMatch"
    THEN [ok |-> FALSE, text |-> <<>>, error |-> "no match", calls |-> <<"speech">>]
    ELSE [ok |-> FALSE, text |-> <<>>, error |-> "canceled", calls |-> <<"speech">>]

----------------------------------------------------------------------------
(* A chat completion: the call raises (or returns no content), or returns  *)
(* a text.                                                                  *)

LLMFailure == [ok |-> FALSE, content |-> <<>>]

Reply(text) == [ok |-> TRUE, content |-> text]

----------------------------------------------------------------------------
(* DiaryPipeline.                                                           *)

DefaultSuggestions ==
    << <<"C","o","n","s","i","d","e","r"," ","m","a","i","n","t","a","i","n","i","n","g"," ","r","e","g","u","l","a","r"," ","s","l","e","e","p"," ","p","a","t","t","e","r","n","s">>,
       <<"S","t","a","y"," ","h","y","d","r","a","t","e","d"," ","t","h","r","o","u","g","h","o","u","t"," ","t","h","e"," ","d","a","y">> >>

Prefix(q, n) == SubSeq(q, 1, IF Len(q) < n THEN Len(q) ELSE n)

RECURSIVE SuggestionLines(_)
SuggestionLines(lines) ==
    IF lines = <<>> THEN <<>>
    ELSE (IF strip(Head(lines)) # <<>>
          THEN <<lstrip_chars(lstrip_chars(strip(Head(lines)), {"-", " "}), {"*", " "})>>
          ELSE <<>>) \o SuggestionLines(Tail(lines))

\* a failed completion raises through to the caller
generate_suggestions_Raising(entries, available, reply) ==
    IF ~available \/ entries = <<>>
    THEN [ok |-> TRUE, suggestions |-> <<>>, calls |-> <<>>]
    ELSE IF ~reply.ok
    THEN [ok |-> FALSE, suggestions |-> <<>>, calls |-> <<"llm_suggestions">>]
    ELSE [ok |-> TRUE,
          suggestions |-> Prefix(SuggestionLines(split(strip(reply.content), <<"\n">>)), 3),
          calls |-> <<"llm_suggestions">>]

generate_suggestions(entries, available, reply) ==
    IF ~available \/ entries = <<>>
    THEN [ok |-> TRUE, suggestions |-> <<>>, calls |-> <<>>]
    ELSE IF ~reply.ok
    THEN [ok |-> TRUE, suggestions |-> DefaultSuggestions, calls |-> <<"llm_suggestions">>]
    ELSE [ok |-> TRUE,
          suggestions |-> Prefix(SuggestionLines(split(strip(reply.content), <<"\n">>)), 3),
          calls |-> <<"llm_suggestions">>]

common_diseases ==
    << <<"d","i","a","b","e","t","e","s">>, <<"h","y","p","e","r","t","e","n","s","i","o","n">>, <<"a","s","t","h","m","a">>, <<"a","r","t","h","r","i","t","i","s">>, <<"h","e","a","r","t"," ","d","i","s","e","a","s","e">>,
       <<"c","a","n","c","e","r">>, <<"t","h","y","r","o","i","d">>, <<"c","o","p","d">>, <<"d","e","p","r","e","s","s","i","o","n">>, <<"a","n","x","i","e","t","y">> >>

\* the keys a dict d gains, in insertion order, when the keys ks are counted
RECURSIVE CountKeys(_, _)
CountKeys(d, ks) ==
    IF ks = <<>> THEN d
    ELSE LET k == Head(ks)
             at == {i \in 1..Len(d) : d[i].key = k}
         IN  CountKeys(IF at = {} THEN Append(d, [key |-> k, count |-> 1])
                       ELSE [i \in 1..Len(d) |->
                                IF i \in at THEN [key |-> k, count |-> d[i].count + 1]
                                ELSE d[i]],
                       Tail(ks))

DiseasesOf(entry) ==
    IF entry.entry_type = "disease"
    THEN Chosen([i \in 1..Len(common_diseases) |->
                    <<contains(lower(entry.text), common_diseases[i]), common_diseases[i]>>])
    ELSE <<>>

MoodOf(entry) ==
    IF entry.entry_type = "mood"
    THEN IF HasAny(entry.text, {<<"h","a","p","p","y">>, <<"g","o","o","d">>}) THEN <<<<"p","o","s","i","t","i","v","e">>>>
         ELSE IF HasAny(entry.text, {<<"s","a","d">>, <<"b","a","d">>}) THEN <<<<"n","e","g","a","t","i","v","e">>>>
         ELSE <<<<"n","e","u","t","r","a","l">>>>
    ELSE <<>>

RECURSIVE CountedDiseases(_, _)
CountedDiseases(d, entries) ==
    IF entries = <<>> THEN d
    ELSE CountedDiseases(CountKeys(d, DiseasesOf(Head(entries))), Tail(entries))

RECURSIVE CountedMoods(_, _)
CountedMoods(d, entries) ==
    IF entries = <<>> THEN d
    ELSE CountedMoods(CountKeys(d, MoodOf(Head(entries))), Tail(entries))

\* sorted(d.items(), key=count, reverse=True): stable, larger counts first
RECURSIVE SortedByCount(_)
SortedByCount(d) ==
    IF d = <<>> THEN <<>>
    ELSE LET i == CHOOSE i \in 1..Len(d) :
                      /\ \A j \in 1..Len(d) : d[j].count <= d[i].count
                      /\ \A j \in 1..(i - 1) : d[j].count < d[i].count
         IN  <<d[i]>> \o SortedByCount(SubSeq(d, 1, i - 1) \o SubSeq(d, i + 1, Len(d)))

Min(S) == CHOOSE x \in S : \A y \in S : x <= y
Max(S) == CHOOSE x \in S : \A y \in S : y <= x

\* the dict generate_summary returns, as a record, and the calls it makes
generate_summary(entries, available, reply) ==
    IF entries = <<>>
    THEN [summary |-> [total_entries |-> 0, date_range |-> <<>>, sentiment_trend |-> <<>>,
                       common_symptoms |-> <<>>, mood_patterns |-> <<>>,
                       suggestions |-> <<>>, visualization_data |-> <<>>],
          calls |-> <<>>]
    ELSE LET dates == {entries[i].timestamp : i \in 1..Len(entries)}
             suggested == generate_suggestions(entries, available, reply)
         IN  [summary |->
                 [total_entries |-> Len(entries),
                  date_range |-> [start |-> Min(dates), end |-> Max(dates)],
                  sentiment_trend |-> <<>>,
                  common_diseases |-> Prefix(SortedByCount(CountedDiseases(<<>>, entries)), 5),
                  mood_patterns |-> CountedMoods(<<>>, entries),
                  suggestions |-> suggested.suggestions,
                  visualization_data |->
                      [i \in 1..Len(entries) |->
                          [date |-> entries[i].timestamp, type |-> entries[i].entry_type]]],
              calls |-> suggested.calls]

----------------------------------------------------------------------------
(* SOAPPipeline.generate_soap_note and update_soap_incremental. What the   *)
(* external services answer during one call is the record ext:             *)
(*   symptoms     the symptom-extraction completion: "fail", "none", "some"*)
(*   nlm          the NLM conditions query: "none" (or failed), "some"     *)
(*   elimination  the elimination completion: "fail", "kept", "none"       *)
(*   entries_ok   FALSE when the diary entries passed in are not a list of *)
(*                dicts, so that reading them raises                       *)
(*   generation   the SOAP completion, retry the retry completion          *)
(* with "unused" for a service the call does not get to.                   *)

\* the calls _perform_differential_diagnosis makes and whether it kept a
\* diagnosis for the prompt
perform_differential_diagnosis(ext) ==
    IF ext.symptoms # "some"
    THEN [calls |-> <<"llm_symptoms">>, kept |-> FALSE]
    ELSE IF ext.nlm # "some" \/ ~ext.entries_ok
    THEN [calls |-> <<"llm_symptoms", "nlm">>, kept |-> FALSE]
    ELSE [calls |-> <<"llm_symptoms", "nlm", "llm_elimination">>,
          kept |-> ext.elimination = "kept"]

retry_soap_generation(t, reply) ==
    [note |-> IF reply.ok THEN parse_soap_response(strip(reply.content), t)
              ELSE generate_fallback_soap(t),
     calls |-> <<"llm_retry">>]

\* line 545
NeedsRetry(soap_note) ==
    \/ soap_note.assessment = <<>>
    \/ contains(lower(soap_note.assessment), <<"p","e","n","d","i","n","g">>)
    \/ contains(lower(soap_note.assessment), <<"t","o"," ","b","e">>)

\* the LLM's note returned as parsed, whatever its assessment says
generate_soap_note_NoRetry(t, available, ext) ==
    IF ~available
    THEN [note |-> generate_fallback_soap(t), calls |-> <<>>]
    ELSE LET differential_result == perform_differential_diagnosis(ext)
         IN  IF ~ext.entries_ok
             THEN [note |-> generate_fallback_soap(t), calls |-> differential_result.calls]
             ELSE IF ~ext.generation.ok
             THEN [note |-> generate_fallback_soap(t),
                   calls |-> differential_result.calls \o <<"llm_soap">>]
             ELSE [note |-> parse_soap_response(strip(ext.generation.content), t),
                   calls |-> differential_result.calls \o <<"llm_soap">>]

\* the note returned and the calls made
generate_soap_note(t, available, ext) ==
    IF ~available
    THEN [note |-> generate_fallback_soap(t), calls |-> <<>>]
    ELSE LET differential_result == perform_differential_diagnosis(ext)
         IN  IF ~ext.entries_ok
             THEN [note |-> generate_fallback_soap(t), calls |-> differential_result.calls]
             ELSE IF ~ext.generation.ok
             THEN [note |-> generate_fallback_soap(t),
                   calls |-> differential_result.calls \o <<"llm_soap">>]
             ELSE LET soap_note == parse_soap_response(strip(ext.generation.content), t)
                      retried == retry_soap_generation(t, ext.retry)
                  IN  IF NeedsRetry(soap_note)
                      THEN [note |-> retried.note,
                            calls |-> differential_result.calls \o <<"llm_soap">> \o retried.calls]
                      ELSE [note |-> soap_note,
                            calls |-> differential_result.calls \o <<"llm_soap">>]

\* update_soap_incremental returning an empty note where lines 557-558 and
\* 645-647 return current_soap
update_soap_incremental_FailureGivesEmptyNote(new_text_chunk, prior_soap, full_transcript, available, readable, reply) ==
    IF ~available \/ ~readable
    THEN [note |-> EmptySections, calls |-> <<>>]
    ELSE IF ~reply.ok
    THEN [note |-> EmptySections, calls |-> <<"llm_update">>]
    ELSE [note |-> parse_soap_response(strip(reply.content), full_transcript),
          calls |-> <<"llm_update">>]

\* the note returned and the calls made; prior_soap is the current_soap
\* argument, readable whether reading the diary entries passed in goes through
update_soap_incremental(new_text_chunk, prior_soap, full_transcript, available, readable, reply) ==
    IF ~available \/ ~readable
    THEN [note |-> prior_soap, calls |-> <<>>]
    ELSE IF ~reply.ok
    THEN [note |-> prior_soap, calls |-> <<"llm_update">>]
    ELSE [note |-> parse_soap_response(strip(reply.content), full_transcript),
          calls |-> <<"llm_update">>]

\* the completions the LLM may return for a SOAP note
GoodNote ==
    <<"=","=","=","S","U","B","J","E","C","T","I","V","E","=","=","=","\n","S","1","\n","=","=","=","O","B","J","E","C","T","I","V","E","=","=","=","\n","O","1","\n","=","=","=","A","S","S","E","S","S","M","E","N","T","=","=","=","\n","A","1","\n","=","=","=","P","L","A","N","=","=","=","\n","P","1">>

GenerationReplies ==
    { LLMFailure, Reply(GoodNote), Reply(<<" ">>),
      Reply(<<"=","=","=","S","U","B","J","E","C","T","I","V","E","=","=","=","\n","S","2","\n","=","=","=","A","S","S","E","S","S","M","E","N","T","=","=","=","\n","P","e","n","d","i","n","g"," ","r","e","v","i","e","w","\n","=","=","=","P","L","A","N","=","=","=","\n","P","2">>) }

RetryReplies ==
    { LLMFailure, Reply(GoodNote), Reply(<<"S","3","\n","\n","O","3">>) }

Unused == [ok |-> FALSE, content |-> <<"u","n","u","s","e","d">>]

\* whether a SOAP completion leads to the retry completion (the transcript
\* only ever fills the subjective section, so any transcript decides it)
RetryAsked(generation) ==
    generation.ok /\ NeedsRetry(parse_soap_response(strip(generation.content), <<>>))

ExtOutcomes ==
    { ext \in [symptoms : {"fail", "none", "some"},
               nlm : {"unused", "none", "some"},
               elimination : {"unused", "fail", "kept", "none"},
               entries_ok : BOOLEAN,
               generation : GenerationReplies \cup {Unused},
               retry : RetryReplies \cup {Unused}] :
        /\ (ext.nlm = "unused") <=> (ext.symptoms # "some")
        /\ (ext.elimination = "unused") <=> (ext.nlm # "some" \/ ~ext.entries_ok)
        /\ (ext.generation = Unused) <=> ~ext.entries_ok
        /\ (ext.retry = Unused) <=> ~RetryAsked(ext.generation) }

----------------------------------------------------------------------------
(* The bounds and the inputs of a dictation stream.                        *)

MaxFrames == 1
MaxEvents == 2
MaxUpdates == 2

\* line 496
MinTranscriptChars == 10

\* the text of a finalized fragment, of an interim result, of an error
Fragments == { <<"f","e","v","e","r">>, <<"c","o","u","g","h"," ","a","n","d"," ","p","a","i","n">> }

InterimTexts == { <<"c","o","u">> }

ErrorTexts == { <<"c","a","n","c","e","l","e","d">> }

\* the completions the LLM may return for an incremental update
UpdateReplies ==
    { LLMFailure, Reply(GoodNote), Reply(<<"=","=","=","S","U","B","J","E","C","T","I","V","E","=","=","=","\n","S","2">>),
      Reply(<<"=","=","=","S","U","B","J","E","C","T","I","V","E","=","=","=","\n","S","3","\n","=","=","=","O","B","J","E","C","T","I","V","E","=","=","=","\n","O","1","\n","=","=","=","A","S","S","E","S","S","M","E","N","T","=","=","=","\n","A","3","\n","=","=","=","P","L","A","N","=","=","=","\n","P","1">>) }

----------------------------------------------------------------------------
(* main.py: the HTTP endpoints. A request is handled in one step: the      *)
(* handlers that touch diary_entries never await.                          *)

MaxIds == 3

\* the text form field of a diary request; <<>> is a missing or empty field
DiaryTexts == { <<>>, <<"a","s","t","h","m","a",","," ","g","o","o","d">> }

EntryTypes == {"mood", "disease"}

\* the entry's timestamp: datetime.now(), or the one the request supplies
Times == {1}

SuggestionReplies ==
    { LLMFailure, Reply(<<"-"," ","a","\n","\n","*"," ","b","\n"," ","c","\n","d">>) }

\* the text form field of text-to-soap
ClinicalTexts == { <<"f","e","v","e","r"," ","a","n","d"," ","c","o","u","g","h">>, <<"m","y"," ","h","e","a","d"," ","h","u","r","t","s">> }

NoOutcome == [reason |-> "unused", text |-> <<>>]

\* uuid4 hands out the same id again
uuid4_Repeating(n) == 1

\* str(uuid.uuid4()): the n-th id handed out
uuid4(n) == n

\* pydantic: constructing a response model raises unless every required
\* field is given
Constructs(required, given) == required \subseteq given

DiarySummaryResponse ==
    {"total_entries", "date_range", "sentiment_trend", "common_symptoms",
     "mood_patterns", "suggestions", "visualization_data"}

ClinicalNoteResponse ==
    {"transcription", "soap_note", "health_entities", "confidence_score"}

\* whether transcribe_audio gets to the recognizer
SpeechAsked(audio_bytes) ==
    speech_configured /\ audio_bytes.length >= MinAudioBytes

\* the answers a handler can get from the speech service and from a
\* completion: an answer is drawn only from a service that is asked
SpeechAnswers(asked) ==
    IF asked THEN SpeechOutcomes ELSE {NoOutcome}

SuggestionAnswers(asked) ==
    IF asked /\ openai_available THEN SuggestionReplies ELSE {Unused}

\* lines 153-163 of create_diary_entry: the audio is read only when there is
\* no text, and whatever is raised inside leaves as a 500
TranscribeForDiary(text, audio_data, outcome) ==
    LET decoded == decode_audio_base64(audio_data)
        heard == transcribe_audio(decoded.audio_bytes, speech_configured, outcome)
    IN  IF ~(audio_data.present /\ text = <<>>)
        THEN [ok |-> TRUE, transcribed_text |-> text, calls |-> <<>>]
        ELSE IF ~decoded.ok \/ ~validate_audio_format(decoded.audio_bytes)
        THEN [ok |-> FALSE, transcribed_text |-> <<>>, calls |-> <<>>]
        ELSE [ok |-> heard.ok, transcribed_text |-> heard.text, calls |-> heard.calls]

\* lines 144-196
create_diary_entry(text, audio_data, entry_type, timestamp) ==
    /\ next_uuid <= MaxIds
    /\ \E outcome \in SpeechAnswers(/\ audio_data.present /\ text = <<>>
                                   /\ audio_data.decodable
                                   /\ validate_audio_format(audio_data)
                                   /\ SpeechAsked(audio_data)) :
       LET heard == TranscribeForDiary(text, audio_data, outcome)
           entry_dict == [id |-> uuid4(next_uuid), text |-> heard.transcribed_text,
                          entry_type |-> entry_type, timestamp |-> timestamp]
       IN  \E reply \in SuggestionAnswers(heard.ok /\ heard.transcribed_text # <<>>) :
           LET suggested == generate_suggestions(<<entry_dict>>, openai_available, reply)
           IN  /\ request' = [op |-> "create", text |-> text, audio_data |-> audio_data,
                              entry_type |-> entry_type, outcome |-> outcome, reply |-> reply]
               /\ IF ~heard.ok
                  THEN /\ response' = [status |-> 500, detail |-> "Audio transcription failed"]
                       /\ calls' = heard.calls
                       /\ UNCHANGED <<diary_entries, next_uuid>>
                  ELSE IF heard.transcribed_text = <<>>
                  THEN /\ response' = [status |-> 400,
                                       detail |-> "Either text or audio_data must be provided"]
                       /\ calls' = heard.calls
                       /\ UNCHANGED <<diary_entries, next_uuid>>
                  ELSE IF ~suggested.ok
                  THEN /\ response' = [status |-> 500, detail |-> "Error creating diary entry"]
                       /\ calls' = heard.calls \o suggested.calls
                       /\ next_uuid' = next_uuid + 1
                       /\ UNCHANGED diary_entries
                  ELSE /\ diary_entries' = Append(diary_entries, entry_dict)
                       /\ next_uuid' = next_uuid + 1
                       /\ response' = [status |-> 200, detail |-> "",
                                       body |-> [id |-> entry_dict.id, text |-> entry_dict.text,
                                                 entry_type |-> entry_type,
                                                 timestamp |-> timestamp,
                                                 suggestions |-> suggested.suggestions]]
                       /\ calls' = heard.calls \o suggested.calls
    /\ UNCHANGED <<parser_vars, config_vars, stream_vars>>

\* lines 199-211
get_diary_entries ==
    /\ request' = [op |-> "list"]
    /\ response' = [status |-> 200, detail |-> "",
                    body |-> [i \in 1..Len(diary_entries) |->
                                [id |-> diary_entries[i].id, text |-> diary_entries[i].text,
                                 entry_type |-> diary_entries[i].entry_type,
                                 timestamp |-> diary_entries[i].timestamp,
                                 suggestions |-> <<>>]]]
    /\ calls' = <<>>
    /\ UNCHANGED <<diary_entries, next_uuid, parser_vars, config_vars, stream_vars>>

\* lines 214-220
get_diary_summary ==
    /\ \E reply \in SuggestionAnswers(diary_entries # <<>>) :
       LET made == generate_summary(diary_entries, openai_available, reply)
       IN  /\ request' = [op |-> "summary", reply |-> reply]
           /\ response' = IF Constructs(DiarySummaryResponse, DOMAIN made.summary)
                          THEN [status |-> 200, detail |-> "", body |-> made.summary]
                          ELSE [status |-> 500, detail |-> "Error generating summary"]
           /\ calls' = made.calls
    /\ UNCHANGED <<diary_entries, next_uuid, parser_vars, config_vars, stream_vars>>

\* the entries kept, last one first
RemainingEntries_Reversed(entries, entry_id) ==
    LET kept == SelectSeq(entries, LAMBDA e : e.id # entry_id)
    IN  [i \in 1..Len(kept) |-> kept[Len(kept) + 1 - i]]

\* the comparison of the filter turned round
RemainingEntries_Inverted(entries, entry_id) ==
    SelectSeq(entries, LAMBDA e : e.id = entry_id)

\* line 227
RemainingEntries(entries, entry_id) ==
    SelectSeq(entries, LAMBDA e : e.id # entry_id)

\* lines 223-232
delete_diary_entry(entry_id) ==
    LET original_count == Len(diary_entries)
    IN  /\ diary_entries' = RemainingEntries(diary_entries, entry_id)
        /\ request' = [op |-> "delete", entry_id |-> entry_id]
        /\ response' = IF Len(diary_entries') = original_count
                       THEN [status |-> 404, detail |-> "Entry not found"]
                       ELSE [status |-> 200, detail |-> "",
                             body |-> "Entry deleted successfully"]
        /\ calls' = <<>>
        /\ UNCHANGED <<next_uuid, parser_vars, config_vars, stream_vars>>

\* the transcripts the clinical endpoints hand to generate_soap_note
ClinicalTranscripts ==
    ClinicalTexts \cup {strip(o.text) : o \in {q \in SpeechOutcomes : strip(q.text) # <<>>}}

\* the transcripts a stream can have when it ends
StreamTranscripts ==
    { join(<<" ">>, q) : q \in SeqsUpTo(Fragments, MaxEvents) \ {<<>>} }
    \cup { <<"N","o"," ","s","p","e","e","c","h"," ","d","e","t","e","c","t","e","d",".">> }

NoteTranscripts == ClinicalTranscripts \cup StreamTranscripts

\* what generate_soap_note returns for the transcripts of NoteTranscripts,
\* one result for every answer of the services it asks
SoapResults ==
    { [transcription |-> t, available |-> a, readable |-> b,
       results |-> { generate_soap_note(t, a, ext) :
                       ext \in { e \in ExtOutcomes : e.entries_ok = b } }] :
        t \in NoteTranscripts, a \in BOOLEAN, b \in BOOLEAN }

\* what generate_soap_note(t, None, entries, gender) can return here
SoapResultsFor(t, readable) ==
    IF t \in NoteTranscripts
    THEN UNION { r.results : r \in { q \in SoapResults : /\ q.available = openai_available
                                                        /\ q.readable = readable
                                                        /\ q.transcription = t } }
    ELSE { generate_soap_note(t, openai_available, ext) :
             ext \in { e \in ExtOutcomes : e.entries_ok = readable } }

\* lines 235-274
transcribe_clinical_note(audio_data) ==
    /\ LET decoded == decode_audio_base64(audio_data)
       IN  \E outcome \in SpeechAnswers(/\ decoded.ok
                                       /\ validate_audio_format(decoded.audio_bytes)
                                       /\ SpeechAsked(decoded.audio_bytes)) :
           LET heard == transcribe_audio(decoded.audio_bytes, speech_configured, outcome)
           IN  /\ request' = [op |-> "transcribe", audio_data |-> audio_data,
                              outcome |-> outcome]
               /\ IF ~decoded.ok
                  THEN /\ response' = [status |-> 500,
                                       detail |-> "Error processing clinical note"]
                       /\ calls' = <<>>
                  ELSE IF ~validate_audio_format(decoded.audio_bytes)
                  THEN /\ response' = [status |-> 400, detail |-> "Invalid audio format"]
                       /\ calls' = <<>>
                  ELSE IF ~heard.ok
                  THEN /\ response' = [status |-> 500,
                                       detail |-> "Error processing clinical note"]
                       /\ calls' = heard.calls
                  ELSE \E readable \in BOOLEAN : \E made \in SoapResultsFor(heard.text, readable) :
                       /\ response' =
                            IF Constructs(ClinicalNoteResponse, {"transcription", "soap_note"})
                            THEN [status |-> 200, detail |-> "",
                                  body |-> [transcription |-> heard.text,
                                            soap_note |-> made.note]]
                            ELSE [status |-> 500, detail |-> "Error processing clinical note"]
                       /\ calls' = heard.calls \o made.calls
    /\ UNCHANGED <<diary_entries, next_uuid, parser_vars, config_vars, stream_vars>>

\* lines 378-415
text_to_soap(text) ==
    /\ \E readable \in BOOLEAN : \E made \in SoapResultsFor(text, readable) :
       /\ request' = [op |-> "text_to_soap", text |-> text]
       /\ response' =
             IF Constructs(ClinicalNoteResponse, {"transcription", "soap_note"})
             THEN [status |-> 200, detail |-> "",
                   body |-> [transcription |-> text, soap_note |-> made.note]]
             ELSE [status |-> 500, detail |-> "Error generating SOAP note"]
       /\ calls' = made.calls
    /\ UNCHANGED <<diary_entries, next_uuid, parser_vars, config_vars, stream_vars>>

Init ==
    /\ ParserIdle
    /\ speech_configured \in BOOLEAN
    /\ openai_available \in BOOLEAN
    /\ ServiceIdle
    /\ StreamIdle

Next ==
    \/ \E text \in DiaryTexts, audio_data \in Audios \cup {NoAudio},
          entry_type \in EntryTypes, timestamp \in Times :
            create_diary_entry(text, audio_data, entry_type, timestamp)
    \/ get_diary_entries
    \/ get_diary_summary
    \/ \E entry_id \in 0..MaxIds : delete_diary_entry(entry_id)
    \/ \E audio_data \in Audios : transcribe_clinical_note(audio_data)
    \/ \E text \in ClinicalTexts : text_to_soap(text)

Spec == Init /\ [][Next]_vars

----------------------------------------------------------------------------
(* main.py: websocket_clinical_stream, one connection. The handler, its    *)
(* update task and the sends scheduled on the loop are coroutines of one   *)
(* event loop and give way to each other only at an await. The recognizer  *)
(* calls speech_callback on a thread of its own (the callback reaches the  *)
(* loop through call_soon_threadsafe), so a callback can fall between any  *)
(* two lines of a coroutine that use what it writes.                       *)

\* lines 425-430
InitialSoap ==
    [subjective |-> <<>>, objective |-> <<"N","o"," ","o","b","j","e","c","t","i","v","e"," ","f","i","n","d","i","n","g","s"," ","d","o","c","u","m","e","n","t","e","d",".">>,
     assessment |-> <<>>, plan |-> <<>>]

\* the init message: its type and whether its diary_entries read as a list
\* of dicts
InitMessages ==
    { [type |-> "init", entries_ok |-> TRUE], [type |-> "init", entries_ok |-> FALSE],
      [type |-> "other", entries_ok |-> TRUE] }

\* send_json that hands nothing to the client
Send_Lost(msgs, msg) == msgs

\* websocket.send_json: the message arrives unless the client has gone
Send(msgs, msg) == IF connected THEN Append(msgs, msg) ELSE msgs

\* AzureClients.start_continuous_recognition: starts a recognizer that calls
\* the callback; as transcribe_audio, it raises without a speech configuration
StartRecognition == speech_configured

\* the recognizer has events to report once it runs and has been fed audio
RecognizerActive == recognizing /\ frames > 0

\* a coroutine of the loop can take a step: the update task is at an await
\* that gives way (its sleep, its send)
LoopFree == task_pc \in {"none", "sleeping", "sending", "cancelled"}

\* the websocket is accepted
StreamInit ==
    /\ ws_pc = "accept"
    /\ task_pc = "none"
    /\ connected = TRUE
    /\ recognizing = FALSE
    /\ frames = 0
    /\ events = 0
    /\ updates = 0
    /\ current_transcript = <<>>
    /\ current_soap = InitialSoap
    /\ update_buffer = <<>>
    /\ entries_ok = TRUE
    /\ final_chunks = <<>>
    /\ scheduled = <<>>
    /\ sent = <<>>
    /\ in_flight = <<>>
    /\ pending_update = <<>>
    /\ finalized = <<>>
    /\ refreshes = <<>>
    /\ frame_locals = <<>>
    /\ conn_io = <<>>

\* lines 468-483 and 527: the init message is read, the recognizer started,
\* the update task created; lines 629-641 when starting raises
ws_init(init_data) ==
    /\ ws_pc = "accept"
    /\ entries_ok' = init_data.entries_ok
    /\ IF init_data.type = "init" /\ ~StartRecognition
       THEN /\ sent' = Send(sent, [type |-> "error"])
            /\ ws_pc' = "closed"
            /\ UNCHANGED <<task_pc, recognizing>>
       ELSE /\ recognizing' = (init_data.type = "init")
            /\ sent' = IF init_data.type = "init" THEN Send(sent, [type |-> "ready"]) ELSE sent
            /\ task_pc' = "sleeping"
            /\ ws_pc' = "loop"
    /\ UNCHANGED <<connected, frames, events, updates, current_transcript, current_soap,
                   update_buffer, final_chunks, scheduled>>
    /\ UNCHANGED <<in_flight, pending_update, finalized, refreshes, parser_vars, config_vars, service_vars, conn_vars>>

\* lines 534-537: an audio frame is written to the push stream
ws_receive_audio ==
    /\ ws_pc = "loop" /\ LoopFree
    /\ frames < MaxFrames
    /\ frames' = frames + 1
    /\ UNCHANGED <<ws_pc, task_pc, connected, recognizing, events, updates,
                   current_transcript, current_soap, update_buffer, entries_ok,
                   final_chunks, scheduled, sent>>
    /\ UNCHANGED <<in_flight, pending_update, finalized, refreshes, parser_vars, config_vars, service_vars, conn_vars>>

\* the task is left as it stands
Cancelled_LeftRunning(pc) == pc

\* lines 553-557: update_task.cancel() and the await of the task: the task
\* ends at the await it stands at
Cancelled(pc) == "cancelled"

\* lines 538-557: a stop message, or the client gone, ends the loop and the
\* update task is cancelled at the await it stands at and has ended when the
\* handler goes on; a send it is cancelled in may or may not have gone out
ws_stop(disconnected) ==
    /\ ws_pc = "loop" /\ LoopFree
    /\ connected' = ~disconnected
    /\ IF task_pc = "sending"
       THEN \E delivered \in BOOLEAN :
               sent' = IF delivered /\ ~disconnected
                       THEN Append(sent, pending_update[1]) ELSE sent
       ELSE sent' = sent
    /\ pending_update' = <<>>
    /\ task_pc' = Cancelled(task_pc)
    /\ ws_pc' = "draining"
    /\ UNCHANGED <<recognizing, frames, events, updates, current_transcript, current_soap,
                   update_buffer, entries_ok, final_chunks, scheduled, in_flight>>
    /\ UNCHANGED <<finalized, refreshes, parser_vars, config_vars, service_vars, conn_vars>>

\* lines 560-568
ws_stop_recognition ==
    /\ ws_pc = "draining"
    /\ recognizing' = FALSE
    /\ ws_pc' = "stopped"
    /\ UNCHANGED <<task_pc, connected, frames, events, updates, current_transcript,
                   current_soap, update_buffer, entries_ok, final_chunks, scheduled, sent>>
    /\ UNCHANGED <<in_flight, pending_update, finalized, refreshes, parser_vars, config_vars, service_vars, conn_vars>>

\* lines 570-578
ws_close_stream ==
    /\ ws_pc = "stopped"
    /\ ws_pc' = "closing"
    /\ UNCHANGED <<task_pc, connected, recognizing, frames, events, updates,
                   current_transcript, current_soap, update_buffer, entries_ok,
                   final_chunks, scheduled, sent>>
    /\ UNCHANGED <<in_flight, pending_update, finalized, refreshes, parser_vars, config_vars, service_vars, conn_vars>>

\* the fragment put right behind the transcript
Joined_NoSpace(transcript, text) == strip(transcript \o text)

\* lines 439-440: the fragment joins the transcript after a space
Joined(transcript, text) ==
    strip(IF transcript # <<>> THEN transcript \o <<" ">> \o text ELSE text)

\* lines 435-465, called by the recognizer
speech_callback(result_type, text) ==
    /\ RecognizerActive
    /\ events < MaxEvents
    /\ events' = events + 1
    /\ IF result_type = "final"
       THEN /\ current_transcript' = Joined(current_transcript, text)
            /\ update_buffer' = Append(update_buffer, <<"final", text>>)
            /\ scheduled' = Append(scheduled, [type |-> "transcription",
                                               status |-> "final", text |-> text])
       ELSE IF result_type = "interim"
       THEN /\ scheduled' = Append(scheduled, [type |-> "transcription",
                                               status |-> "interim", text |-> text])
            /\ UNCHANGED <<current_transcript, update_buffer>>
       ELSE /\ scheduled' = Append(scheduled, [type |-> "error", message |-> text])
            /\ UNCHANGED <<current_transcript, update_buffer>>
    /\ finalized' = IF result_type = "final" THEN Append(finalized, text) ELSE finalized
    /\ UNCHANGED <<ws_pc, task_pc, connected, recognizing, frames, updates, current_soap,
                   entries_ok, final_chunks, sent>>
    /\ UNCHANGED <<in_flight, pending_update, refreshes, parser_vars, config_vars, service_vars, conn_vars>>

\* lines 443-465: a send the callback scheduled runs on the loop; the final
\* one reads current_transcript when it runs
send_scheduled ==
    /\ scheduled # <<>>
    /\ LoopFree /\ ws_pc # "closed"
    /\ LET msg == Head(scheduled)
       IN  sent' = Send(sent,
                        IF msg.type = "transcription" /\ msg.status = "final"
                        THEN [type |-> "transcription", status |-> "final",
                              text |-> msg.text, full_transcript |-> current_transcript]
                        ELSE msg)
    /\ scheduled' = Tail(scheduled)
    /\ UNCHANGED <<ws_pc, task_pc, connected, recognizing, frames, events, updates,
                   current_transcript, current_soap, update_buffer, entries_ok,
                   final_chunks>>
    /\ UNCHANGED <<in_flight, pending_update, finalized, refreshes, parser_vars, config_vars, service_vars, conn_vars>>

\* text of the (status, text) pairs with status "final"
RECURSIVE FinalTexts(_)
FinalTexts(buffer) ==
    IF buffer = <<>> THEN <<>>
    ELSE (IF Head(buffer)[1] = "final" THEN <<Head(buffer)[2]>> ELSE <<>>)
         \o FinalTexts(Tail(buffer))

\* lines 489-500: the task wakes with a transcript long enough and reads the
\* buffer
task_read ==
    /\ task_pc = "sleeping"
    /\ updates < MaxUpdates
    /\ current_transcript # <<>> /\ Len(strip(current_transcript)) > MinTranscriptChars
    /\ final_chunks' = FinalTexts(update_buffer)
    /\ task_pc' = IF update_buffer # <<>> THEN "read" ELSE "cleared"
    /\ UNCHANGED <<ws_pc, connected, recognizing, frames, events, updates,
                   current_transcript, current_soap, update_buffer, entries_ok,
                   scheduled, sent>>
    /\ UNCHANGED <<in_flight, pending_update, finalized, refreshes, parser_vars, config_vars, service_vars, conn_vars>>

\* line 501
task_clear ==
    /\ task_pc = "read"
    /\ update_buffer' = <<>>
    /\ task_pc' = "cleared"
    /\ UNCHANGED <<ws_pc, connected, recognizing, frames, events, updates,
                   current_transcript, current_soap, entries_ok, final_chunks,
                   scheduled, sent>>
    /\ UNCHANGED <<in_flight, pending_update, finalized, refreshes, parser_vars, config_vars, service_vars, conn_vars>>

\* line 517 left out: the held note is not replaced
Refreshed_NotKept(prior_soap, updated_soap) == prior_soap

\* line 517
Refreshed(prior_soap, updated_soap) == updated_soap

\* the call is started and the task goes on without its answer
Awaited_NotAwaited(pc) == "sleeping"

\* line 504: the task awaits the call it issues, and stands there till the
\* answer is in
Awaited(pc) == pc

\* lines 502-510: the update call is issued with the arguments of this
\* moment and gets the answer the LLM gives to them. The completion inside
\* it is a blocking call, so no coroutine of the loop runs before it
\* returns; the recognizer's thread does
task_call ==
    /\ task_pc = "cleared"
    /\ \E reply \in (IF openai_available /\ entries_ok THEN UpdateReplies ELSE {Unused}) :
       LET new_text       == join(<<" ">>, final_chunks)
           new_text_chunk == IF new_text # <<>> THEN new_text ELSE current_transcript
       IN  /\ in_flight' =
                 Append(in_flight,
                        [new_text_chunk |-> new_text_chunk,
                         prior_soap |-> current_soap,
                         full_transcript |-> current_transcript,
                         reply |-> reply])
           /\ refreshes' =
                 Append(refreshes,
                        [read |-> final_chunks, new_text_chunk |-> new_text_chunk,
                         full_transcript |-> current_transcript,
                         failed |-> ~reply.ok])
    /\ updates' = updates + 1
    /\ final_chunks' = <<>>
    /\ task_pc' = Awaited("calling")
    /\ UNCHANGED <<ws_pc, connected, recognizing, frames, events, current_transcript,
                   current_soap, update_buffer, entries_ok, scheduled, sent,
                   pending_update, finalized>>
    /\ UNCHANGED <<parser_vars, config_vars, service_vars, conn_vars>>

\* lines 504-517: a call in flight returns, the sections that differ from
\* the held note are listed and the held note is replaced
task_apply ==
    /\ in_flight # <<>>
    /\ pending_update = <<>>
    /\ \E i \in 1..Len(in_flight) :
       LET call == in_flight[i]
           updated_soap ==
               update_soap_incremental(call.new_text_chunk, call.prior_soap,
                                       call.full_transcript, openai_available,
                                       entries_ok, call.reply).note
           changed_sections ==
               Chosen([k \in 1..Len(SectionOrder) |->
                          <<updated_soap[SectionOrder[k]] # current_soap[SectionOrder[k]],
                            SectionOrder[k]>>])
       IN  /\ current_soap' = Refreshed(current_soap, updated_soap)
           /\ pending_update' = <<[type |-> "soap_update", soap |-> updated_soap,
                                   changed_sections |-> changed_sections]>>
           /\ in_flight' = SubSeq(in_flight, 1, i - 1) \o
                           SubSeq(in_flight, i + 1, Len(in_flight))
    /\ task_pc' = "sending"
    /\ UNCHANGED <<ws_pc, connected, recognizing, frames, events, updates,
                   current_transcript, update_buffer, entries_ok, final_chunks,
                   scheduled, sent>>
    /\ UNCHANGED <<finalized, refreshes, parser_vars, config_vars, service_vars, conn_vars>>

\* lines 519-525: the soap_update is sent and the task sleeps again
task_send ==
    /\ task_pc = "sending" /\ pending_update # <<>>
    /\ sent' = Send(sent, pending_update[1])
    /\ pending_update' = <<>>
    /\ task_pc' = "sleeping"
    /\ UNCHANGED <<ws_pc, connected, recognizing, frames, events, updates,
                   current_transcript, current_soap, update_buffer, entries_ok,
                   final_chunks, scheduled, in_flight>>
    /\ UNCHANGED <<finalized, refreshes, parser_vars, config_vars, service_vars, conn_vars>>

\* lines 580-627 and 637-641: the final note is generated from the transcript
\* and sent; a send that fails ends in no final message
ws_final ==
    /\ ws_pc = "closing"
    /\ current_transcript' =
          IF current_transcript = <<>> \/ strip(current_transcript) = <<>>
          THEN <<"N","o"," ","s","p","e","e","c","h"," ","d","e","t","e","c","t","e","d",".">> ELSE current_transcript
    /\ \E made \in SoapResultsFor(current_transcript', entries_ok) :
          sent' = Send(sent, [type |-> "final", transcription |-> current_transcript',
                              soap |-> made.note])
    /\ ws_pc' = "closed"
    /\ UNCHANGED <<task_pc, connected, recognizing, frames, events, updates, current_soap,
                   update_buffer, entries_ok, final_chunks, scheduled>>
    /\ UNCHANGED <<in_flight, pending_update, finalized, refreshes, parser_vars, config_vars, service_vars, conn_vars>>

StreamSpecInit ==
    /\ ParserIdle
    /\ speech_configured \in BOOLEAN
    /\ openai_available \in BOOLEAN
    /\ ServiceIdle
    /\ StreamInit

StreamNext ==
    \/ \E init_data \in InitMessages : ws_init(init_data)
    \/ ws_receive_audio
    \/ \E disconnected \in BOOLEAN : ws_stop(disconnected)
    \/ ws_stop_recognition
    \/ ws_close_stream
    \/ ws_final
    \/ \E text \in Fragments : speech_callback("final", text)
    \/ \E text \in InterimTexts : speech_callback("interim", text)
    \/ \E text \in ErrorTexts : speech_callback("error", text)
    \/ send_scheduled
    \/ task_read
    \/ task_clear
    \/ task_call
    \/ task_apply
    \/ task_send

StreamSpec == StreamSpecInit /\ [][StreamNext]_vars

\* the handler's steps after the loop are sleeps and calls that return
\* (lines 560-627), so the handler gets through them
FairStreamSpec ==
    /\ StreamSpec
    /\ WF_vars(ws_stop_recognition)
    /\ WF_vars(ws_close_stream)
    /\ WF_vars(ws_final)

----------------------------------------------------------------------------
(* SOAPPipeline.generate_soap_note called on its own: request holds the    *)
(* arguments of the call and what the services answer during it, response  *)
(* the dict it returns, calls the external calls it made. The function     *)
(* keeps nothing between calls, so a behaviour is one call.                *)

PipelineInit ==
    /\ ParserIdle
    /\ speech_configured = FALSE
    /\ openai_available \in BOOLEAN
    /\ ServiceIdle
    /\ StreamIdle

\* lines 372-554: one call of generate_soap_note(transcription, None,
\* diary_entries, gender)
call_generate_soap_note(transcription, ext) ==
    LET made == generate_soap_note(transcription, openai_available, ext)
    IN  /\ request.op = "none"
        /\ request' = [op |-> "generate_soap_note", transcription |-> transcription,
                       ext |-> ext]
        /\ response' = [status |-> 0, note |-> made.note]
        /\ calls' = made.calls
        /\ UNCHANGED <<diary_entries, next_uuid, parser_vars, config_vars, stream_vars>>

PipelineNext ==
    \E transcription \in NoteTranscripts, ext \in ExtOutcomes :
        call_generate_soap_note(transcription, ext)

PipelineSpec == PipelineInit /\ [][PipelineNext]_vars

----------------------------------------------------------------------------
(* GET /api/doctors (main.py, get_doctors). A registry answer is described *)
(* by what client.get, raise_for_status and response.json() give: an       *)
(* httpx.HTTPError, another exception, or the decoded JSON with its        *)
(* result_count and results. A result keeps its number, the name fields of *)
(* its "basic" object and the descriptions of its taxonomies; addresses    *)
(* and phone numbers are copied through by the handler and are left out.   *)
(* The handler keeps nothing between requests, so a behaviour is one       *)
(* request.                                                                *)

DecimalDigits == <<"0", "1", "2", "3", "4", "5", "6", "7", "8", "9">>

IsDigit(c) == \E d \in 1..10 : DecimalDigits[d] = c

RECURSIVE Decimal(_)
Decimal(s) ==
    IF s = <<>> THEN 0
    ELSE 10 * Decimal(SubSeq(s, 1, Len(s) - 1))
         + (CHOOSE d \in 0..9 : DecimalDigits[d + 1] = s[Len(s)])

\* Python's int() of a str: surrounding whitespace and one sign are allowed,
\* anything but decimal digits raises ValueError
int(s) ==
    LET t == strip(s)
        signed == t # <<>> /\ t[1] \in {"+", "-"}
        body == IF signed THEN Tail(t) ELSE t
    IN  IF body = <<>> \/ \E i \in 1..Len(body) : ~IsDigit(body[i])
        THEN [ok |-> FALSE, value |-> 0]
        ELSE [ok |-> TRUE,
              value |-> IF signed /\ t[1] = "-" THEN 0 - Decimal(body) ELSE Decimal(body)]

\* s[:n] of a list
Truncated(s, n) == SubSeq(s, 1, IF n < Len(s) THEN n ELSE Len(s))

FamilyMedicine == <<"F","a","m","i","l","y"," ","M","e","d","i","c","i","n","e">>

\* lines 708-725, in the order of the dict
taxonomy_map ==
    << <<<<"f","a","m","i","l","y"," ","m","e","d","i","c","i","n","e">>, FamilyMedicine>>,
       <<<<"i","n","t","e","r","n","a","l"," ","m","e","d","i","c","i","n","e">>, <<"I","n","t","e","r","n","a","l"," ","M","e","d","i","c","i","n","e">>>>,
       <<<<"c","a","r","d","i","o","l","o","g","y">>, <<"C","a","r","d","i","o","l","o","g","y">>>>,
       <<<<"e","n","d","o","c","r","i","n","o","l","o","g","y">>, <<"E","n","d","o","c","r","i","n","o","l","o","g","y">>>>,
       <<<<"n","e","u","r","o","l","o","g","y">>, <<"N","e","u","r","o","l","o","g","y">>>>,
       <<<<"o","r","t","h","o","p","e","d","i","c">>, <<"O","r","t","h","o","p","e","d","i","c"," ","S","u","r","g","e","r","y">>>>,
       <<<<"o","r","t","h","o","p","e","d","i","c","s">>, <<"O","r","t","h","o","p","e","d","i","c"," ","S","u","r","g","e","r","y">>>>,
       <<<<"d","e","r","m","a","t","o","l","o","g","y">>, <<"D","e","r","m","a","t","o","l","o","g","y">>>>,
       <<<<"g","a","s","t","r","o","e","n","t","e","r","o","l","o","g","y">>, <<"G","a","s","t","r","o","e","n","t","e","r","o","l","o","g","y">>>>,
       <<<<"p","u","l","m","o","n","o","l","o","g","y">>, <<"P","u","l","m","o","n","o","l","o","g","y">>>>,
       <<<<"r","h","e","u","m","a","t","o","l","o","g","y">>, <<"R","h","e","u","m","a","t","o","l","o","g","y">>>>,
       <<<<"p","s","y","c","h","i","a","t","r","y">>, <<"P","s","y","c","h","i","a","t","r","y">>>>,
       <<<<"p","e","d","i","a","t","r","i","c","s">>, <<"P","e","d","i","a","t","r","i","c","s">>>>,
       <<<<"o","b","s","t","e","t","r","i","c","s">>, <<"O","b","s","t","e","t","r","i","c","s"," ","&"," ","G","y","n","e","c","o","l","o","g","y">>>>,
       <<<<"g","y","n","e","c","o","l","o","g","y">>, <<"O","b","s","t","e","t","r","i","c","s"," ","&"," ","G","y","n","e","c","o","l","o","g","y">>>>,
       <<<<"e","m","e","r","g","e","n","c","y">>, <<"E","m","e","r","g","e","n","c","y"," ","M","e","d","i","c","i","n","e">>>> >>

\* lines 705-735: the specialty taken from the classification reply; <<>>
\* stands for None (the call raised, or the reply has no content)
ClassifiedSpecialty(reply) ==
    IF ~reply.ok THEN <<>>
    ELSE LET taxonomy_description == strip(reply.content)
             taxonomy_lower == lower(taxonomy_description)
             hits == { k \in 1..Len(taxonomy_map) :
                         contains(taxonomy_lower, taxonomy_map[k][1]) }
         IN  IF hits = {} THEN taxonomy_description
             ELSE taxonomy_map[CHOOSE k \in hits : \A h \in hits : k <= h][2]

\* lines 739-752: the keyword groups in the order they are tried
SpecialtyKeywords ==
    << <<{ <<"h","e","a","r","t">>, <<"c","a","r","d","i","a","c">>, <<"c","h","e","s","t">>, <<"h","y","p","e","r","t","e","n","s","i","o","n">>, <<"b","l","o","o","d"," ","p","r","e","s","s","u","r","e">>,
           <<"a","r","r","h","y","t","h","m","i","a">> }, <<"C","a","r","d","i","o","l","o","g","y">>>>,
       <<{ <<"d","i","a","b","e","t","e","s">>, <<"t","h","y","r","o","i","d">>, <<"h","o","r","m","o","n","e">>, <<"m","e","t","a","b","o","l","i","c">>, <<"i","n","s","u","l","i","n">>,
           <<"g","l","u","c","o","s","e">> }, <<"E","n","d","o","c","r","i","n","o","l","o","g","y">>>>,
       <<{ <<"h","e","a","d","a","c","h","e">>, <<"m","i","g","r","a","i","n","e">>, <<"n","e","u","r","o","l","o","g","i","c","a","l">>, <<"b","r","a","i","n">>, <<"n","e","r","v","e">>,
           <<"s","e","i","z","u","r","e">>, <<"s","t","r","o","k","e">> }, <<"N","e","u","r","o","l","o","g","y">>>>,
       <<{ <<"b","o","n","e">>, <<"j","o","i","n","t">>, <<"k","n","e","e">>, <<"h","i","p">>, <<"f","r","a","c","t","u","r","e">>, <<"a","r","t","h","r","i","t","i","s">> },
         <<"O","r","t","h","o","p","e","d","i","c"," ","S","u","r","g","e","r","y">>>>,
       <<{ <<"s","k","i","n">>, <<"r","a","s","h">>, <<"d","e","r","m","a","t","i","t","i","s">>, <<"a","c","n","e">> }, <<"D","e","r","m","a","t","o","l","o","g","y">>>>,
       <<{ <<"s","t","o","m","a","c","h">>, <<"d","i","g","e","s","t","i","v","e">>, <<"g","a","s","t","r","o">>, <<"n","a","u","s","e","a">>, <<"v","o","m","i","t">> },
         <<"G","a","s","t","r","o","e","n","t","e","r","o","l","o","g","y">>>>,
       <<{ <<"l","u","n","g">>, <<"b","r","e","a","t","h","i","n","g">>, <<"a","s","t","h","m","a">>, <<"c","o","u","g","h">>, <<"r","e","s","p","i","r","a","t","o","r","y">> },
         <<"P","u","l","m","o","n","o","l","o","g","y">>>> >>

\* lines 737-754: the specialty chosen from the keywords of the text
KeywordSpecialty(combined_text) ==
    LET combined_text_lower == lower(combined_text)
        hits == { g \in 1..Len(SpecialtyKeywords) :
                    \E keyword \in SpecialtyKeywords[g][1] :
                        contains(combined_text_lower, keyword) }
    IN  IF hits = {} THEN FamilyMedicine
        ELSE SpecialtyKeywords[CHOOSE g \in hits : \A h \in hits : g <= h][2]

\* lines 792-798 and 907-913: the name shown for a registry result
DoctorName(result) ==
    IF result.organization_name # <<>> THEN result.organization_name
    ELSE strip(result.first_name \o <<" ">> \o result.last_name)

\* lines 815-823 and 930-937 (raw_data, which line 877 removes again, and the
\* address and phone are left out)
Doctor(result, default_specialty) ==
    [name |-> DoctorName(result),
     specialty |-> IF result.taxonomies # <<>> THEN result.taxonomies[1]
                   ELSE default_specialty,
     clinic |-> result.organization_name,
     npi |-> result.number]

\* lines 783-823 and 899-937: the results that have a name, in registry order
RECURSIVE Providers(_, _)
Providers(results, default_specialty) ==
    IF results = <<>> THEN <<>>
    ELSE (IF DoctorName(Head(results)) = <<>> THEN <<>>
          ELSE <<Doctor(Head(results), default_specialty)>>)
         \o Providers(Tail(results), default_specialty)

\* lines 853-860: the 0-based indices named by the ranking text, in the order
\* and as often as they are named
RECURSIVE RankedIndices(_, _)
RankedIndices(nums, n) ==
    IF nums = <<>> THEN <<>>
    ELSE LET idx == int(Head(nums)).value - 1
         IN  (IF int(Head(nums)).ok /\ 0 <= idx /\ idx < n THEN <<idx>> ELSE <<>>)
             \o RankedIndices(Tail(nums), n)

\* line 864: the providers the ranking does not name, from index i on
RECURSIVE Unranked(_, _, _)
Unranked(all_providers, ranked_indices, i) ==
    IF i >= Len(all_providers) THEN <<>>
    ELSE (IF \E k \in 1..Len(ranked_indices) : ranked_indices[k] = i THEN <<>>
          ELSE <<all_providers[i + 1]>>)
         \o Unranked(all_providers, ranked_indices, i + 1)

\* the registry's order, not cut
RegistryOrder_Uncut(all_providers, search_limit) == all_providers

\* lines 867, 872 and 874: the registry's own order, cut at the search limit
RegistryOrder(all_providers, search_limit) == Truncated(all_providers, search_limit)

\* lines 852-872: the doctors chosen with the answer of the ranking call
RankedDoctors(all_providers, search_limit, reply) ==
    IF ~reply.ok THEN RegistryOrder(all_providers, search_limit)
    ELSE LET ranking_text == strip(reply.content)
             ranked_indices == RankedIndices(split(ranking_text, <<",">>),
                                             Len(all_providers))
             doctors == Truncated([k \in 1..Len(ranked_indices) |->
                                      all_providers[ranked_indices[k] + 1]],
                                  search_limit)
             remaining == Unranked(all_providers, ranked_indices, 0)
         IN  IF ranked_indices # <<>>
             THEN doctors \o Truncated(remaining, search_limit - Len(doctors))
             ELSE RegistryOrder(all_providers, search_limit)

NoDoctorsFound == "No doctors found in NPI Registry"
ErrorConnecting == "Error connecting to NPI Registry"
ErrorLoading == "Error loading doctors"

\* lines 952-965: what the two outer except clauses return
RegistryFailure(answer) ==
    [doctors |-> <<>>,
     message |-> IF answer.kind = "HTTPError" THEN ErrorConnecting ELSE ErrorLoading]

\* lines 651-965: the response body and the external calls of one request;
\* ext holds what the classification call, the registry, the ranking call and
\* the Family Medicine query answer when they are asked
get_doctors(assessment, transcription, search_limit, available, ext) ==
    LET combined_text == strip(assessment \o <<" ">> \o transcription)
        classify == available /\ combined_text # <<>>
        classified == IF classify THEN ClassifiedSpecialty(ext.classification) ELSE <<>>
        taxonomy_description ==
            IF classified # <<>> THEN classified ELSE KeywordSpecialty(combined_text)
        first_calls ==
            (IF classify THEN <<[op |-> "llm_specialty"]>> ELSE <<>>)
            \o <<[op |-> "registry", taxonomy_description |-> taxonomy_description]>>
        npi_data == ext.registry
        all_providers ==
            IF npi_data.kind = "json" /\ npi_data.result_count > 0
            THEN Providers(npi_data.results, taxonomy_description)
            ELSE <<>>
        rank == available /\ combined_text # <<>> /\ Len(all_providers) > 0
        doctors ==
            IF rank THEN RankedDoctors(all_providers, search_limit, ext.ranking)
            ELSE RegistryOrder(all_providers, search_limit)
        rank_calls == IF rank THEN <<[op |-> "llm_ranking"]>> ELSE <<>>
        fall_back == doctors = <<>> /\ taxonomy_description # <<>>
                     /\ taxonomy_description # FamilyMedicine
        fallback_data == ext.fallback
        fallback_doctors ==
            IF fallback_data.result_count > 0
            THEN Providers(Truncated(fallback_data.results, search_limit), FamilyMedicine)
            ELSE <<>>
        fallback_calls ==
            IF fall_back
            THEN <<[op |-> "registry", taxonomy_description |-> FamilyMedicine]>>
            ELSE <<>>
        found == IF fall_back THEN fallback_doctors ELSE doctors
    IN  IF npi_data.kind # "json"
        THEN [body |-> RegistryFailure(npi_data), calls |-> first_calls]
        ELSE IF fall_back /\ fallback_data.kind # "json"
        THEN [body |-> RegistryFailure(fallback_data),
              calls |-> first_calls \o rank_calls \o fallback_calls]
        ELSE [body |-> IF found = <<>>
                       THEN [doctors |-> <<>>, message |-> NoDoctorsFound]
                       ELSE [doctors |-> found, total |-> Len(found)],
              calls |-> first_calls \o rank_calls \o fallback_calls]

\* the assessment and transcription query parameters (<<>>: not given)
Assessments == { <<>>, <<"t","i","r","e","d">> }

SpokenTexts == { <<>>, <<"m","i","l","d"," ","c","o","u","g","h">> }

LLMRaised == [ok |-> FALSE, content |-> <<>>]

Content(text) == [ok |-> TRUE, content |-> text]

\* answers of the classification call
ClassificationReplies ==
    { LLMRaised, Content(<<" ","O","r","t","h","o","p","e","d","i","c","s"," ","c","l","i","n","i","c","\n">>), Content(<<"U","n","k","n","o","w","n">>) }

\* answers of the ranking call
RankingReplies ==
    { LLMRaised, Content(<<"1",",","1">>), Content(<<" ","3"," ",","," ","1">>), Content(<<"9",",","x",",","0">>) }

Result(number, organization_name, first_name, last_name, taxonomies) ==
    [number |-> number, organization_name |-> organization_name,
     first_name |-> first_name, last_name |-> last_name, taxonomies |-> taxonomies]

Json(results) == [kind |-> "json", result_count |-> Len(results), results |-> results]

HTTPError == [kind |-> "HTTPError", result_count |-> 0, results |-> <<>>]

JsonError == [kind |-> "Exception", result_count |-> 0, results |-> <<>>]

Ann == Result("1001", <<>>, <<"A","n","n">>, <<"L","e","e">>, <<<<"C","a","r","d","i","o","l","o","g","y">>>>)
Clinic == Result("1002", <<"C","i","t","y"," ","C","l","i","n","i","c">>, <<>>, <<>>, <<>>)
Nameless == Result("1003", <<>>, <<>>, <<" ">>, <<>>)
Roy == Result("1004", <<>>, <<>>, <<"R","o","y">>, <<<<"F","a","m","i","l","y"," ","M","e","d","i","c","i","n","e">>>>)

\* answers of the registry to the first query
RegistryAnswers ==
    { HTTPError, JsonError, Json(<<>>), Json(<<Ann, Nameless, Clinic, Roy>>) }

\* answers of the registry to the Family Medicine query
FallbackAnswers == { HTTPError, Json(<<Roy, Ann>>) }

\* NPI_SEARCH_LIMIT
MaxSearchLimit == 2
SearchLimits == 1..MaxSearchLimit

DoctorsExt ==
    [classification : ClassificationReplies, registry : RegistryAnswers,
     ranking : RankingReplies, fallback : FallbackAnswers]

DoctorsInit ==
    /\ ParserIdle
    /\ speech_configured = FALSE
    /\ openai_available \in BOOLEAN
    /\ ServiceIdle
    /\ StreamIdle

\* lines 643-965: one GET /api/doctors
handle_get_doctors(assessment, transcription, search_limit, ext) ==
    LET made == get_doctors(assessment, transcription, search_limit,
                            openai_available, ext)
    IN  /\ request.op = "none"
        /\ request' = [op |-> "get_doctors", assessment |-> assessment,
                       transcription |-> transcription,
                       search_limit |-> search_limit, ext |-> ext]
        /\ response' = [status |-> 200, detail |-> "", body |-> made.body]
        /\ calls' = made.calls
        /\ UNCHANGED <<diary_entries, next_uuid, parser_vars, config_vars, stream_vars>>

DoctorsNext ==
    \E assessment \in Assessments, transcription \in SpokenTexts,
       search_limit \in SearchLimits, ext \in DoctorsExt :
        handle_get_doctors(assessment, transcription, search_limit, ext)

DoctorsSpec == DoctorsInit /\ [][DoctorsNext]_vars

----------------------------------------------------------------------------
(* Several dictation streams open at once. Every connection is served by   *)
(* a call of websocket_clinical_stream of its own; current_transcript,     *)
(* current_soap, update_buffer and the handler's diary_entries are locals  *)
(* of that call (lines 424-432), which its speech_callback and its update  *)
(* task reach as closure variables. Each handler is abridged to four       *)
(* steps: accepting and starting, a finalized fragment, one refresh of the *)
(* update loop, and the end with the final message. The recognizer started *)
(* for a connection reports the speech of that connection to the callback  *)
(* it was started with; the LLM answers a call from the prompt of the call.*)

MaxConns == 2

Conns == 1..MaxConns

\* every call of the handler works on one and the same set of locals
Frame_Shared(c) == 1

\* line 419: the frame of the handler call that serves connection c
Frame(c) == c

\* lines 422-432
FreshLocals ==
    [current_transcript |-> <<>>, current_soap |-> InitialSoap, update_buffer |-> <<>>]

\* what is said on a connection
SpokenOn(c) ==
    IF c = 1 THEN <<"f","e","v","e","r">>
    ELSE IF c = 2 THEN <<"c","o","u","g","h"," ","a","n","d"," ","p","a","i","n">>
    ELSE <<"t","i","r","e","d"," ","a","l","l"," ","w","e","e","k">>

\* a completion that writes the new text into the subjective section
Echo(new_text_chunk) == Reply(<<"=","=","=","S","U","B","J","E","C","T","I","V","E","=","=","=","\n">> \o new_text_chunk)

\* the completions for an incremental update with this new text
ConnUpdateReplies(new_text_chunk) == { LLMFailure, Reply(GoodNote), Echo(new_text_chunk) }

TwoStreamInit ==
    /\ ParserIdle
    /\ speech_configured = TRUE
    /\ openai_available \in BOOLEAN
    /\ ServiceIdle
    /\ SingleStreamIdle
    /\ frame_locals = [f \in Conns |-> FreshLocals]
    /\ conn_io = [c \in Conns |->
                    [pc |-> "connecting", heard |-> <<>>, updates |-> 0, sent |-> <<>>]]

\* lines 420-483: the connection is accepted, the locals are set up, the
\* recognizer is started and ready is sent
conn_accept(c) ==
    /\ conn_io[c].pc = "connecting"
    /\ StartRecognition
    /\ frame_locals' = [frame_locals EXCEPT ![Frame(c)] = FreshLocals]
    /\ conn_io' = [conn_io EXCEPT ![c].pc = "open",
                                  ![c].sent = Append(@, [type |-> "ready"])]
    /\ UNCHANGED <<ws_pc, task_pc, connected, recognizing, frames, events, updates,
                   current_transcript, current_soap, update_buffer, entries_ok,
                   final_chunks, scheduled, sent, in_flight, pending_update,
                   finalized, refreshes, parser_vars, config_vars, service_vars>>

\* lines 435-450: the recognizer of connection c reports a finalized fragment
conn_speech_callback(c, text) ==
    /\ conn_io[c].pc = "open"
    /\ Len(conn_io[c].heard) < MaxEvents
    /\ LET mine == frame_locals[Frame(c)]
           joined == Joined(mine.current_transcript, text)
       IN  /\ frame_locals' =
                 [frame_locals EXCEPT ![Frame(c)] =
                     [mine EXCEPT !.current_transcript = joined,
                                  !.update_buffer = Append(@, <<"final", text>>)]]
           /\ conn_io' =
                 [conn_io EXCEPT ![c].heard = Append(@, text),
                                 ![c].sent = Append(@, [type |-> "transcription",
                                                        status |-> "final", text |-> text,
                                                        full_transcript |-> joined])]
    /\ UNCHANGED <<ws_pc, task_pc, connected, recognizing, frames, events, updates,
                   current_transcript, current_soap, update_buffer, entries_ok,
                   final_chunks, scheduled, sent, in_flight, pending_update,
                   finalized, refreshes, parser_vars, config_vars, service_vars>>

\* lines 495-523: one round of the update task of connection c
conn_refresh(c) ==
    /\ conn_io[c].pc = "open"
    /\ conn_io[c].updates < MaxUpdates
    /\ LET mine == frame_locals[Frame(c)]
           chunks == SelectSeq(mine.update_buffer, LAMBDA e : e[1] = "final")
           new_text == join(<<" ">>, [k \in 1..Len(chunks) |-> chunks[k][2]])
           new_text_chunk == IF new_text # <<>> THEN new_text ELSE mine.current_transcript
       IN  /\ mine.current_transcript # <<>>
           /\ Len(strip(mine.current_transcript)) > MinTranscriptChars
           /\ \E reply \in ConnUpdateReplies(new_text_chunk) :
              LET updated_soap ==
                      update_soap_incremental(new_text_chunk, mine.current_soap,
                                              mine.current_transcript, openai_available,
                                              TRUE, reply).note
                  changed_sections ==
                      Chosen([k \in 1..Len(SectionOrder) |->
                                 <<updated_soap[SectionOrder[k]] # mine.current_soap[SectionOrder[k]],
                                   SectionOrder[k]>>])
              IN  /\ frame_locals' =
                        [frame_locals EXCEPT ![Frame(c)] =
                            [mine EXCEPT !.current_soap = Refreshed(@, updated_soap),
                                         !.update_buffer = <<>>]]
                  /\ conn_io' =
                        [conn_io EXCEPT ![c].updates = @ + 1,
                                        ![c].sent = Append(@, [type |-> "soap_update",
                                                               soap |-> updated_soap,
                                                               changed_sections |-> changed_sections])]
    /\ UNCHANGED <<ws_pc, task_pc, connected, recognizing, frames, events, updates,
                   current_transcript, current_soap, update_buffer, entries_ok,
                   final_chunks, scheduled, sent, in_flight, pending_update,
                   finalized, refreshes, parser_vars, config_vars, service_vars>>

\* lines 538-603: the client of connection c stops; the note is generated
\* from the transcript and the final message is sent
conn_stop(c) ==
    /\ conn_io[c].pc = "open"
    /\ LET mine == frame_locals[Frame(c)]
           transcript == IF strip(mine.current_transcript) = <<>>
                         THEN <<"N","o"," ","s","p","e","e","c","h"," ","d","e","t","e","c","t","e","d",".">> ELSE mine.current_transcript
       IN  \E made \in SoapResultsFor(transcript, TRUE) :
              conn_io' = [conn_io EXCEPT ![c].pc = "closed",
                                         ![c].sent = Append(@, [type |-> "final",
                                                                transcription |-> transcript,
                                                                soap |-> made.note])]
    /\ UNCHANGED <<ws_pc, task_pc, connected, recognizing, frames, events, updates,
                   current_transcript, current_soap, update_buffer, entries_ok,
                   final_chunks, scheduled, sent, in_flight, pending_update,
                   finalized, refreshes, frame_locals, parser_vars, config_vars,
                   service_vars>>

TwoStreamNext ==
    \E c \in Conns :
        \/ conn_accept(c)
        \/ conn_speech_callback(c, SpokenOn(c))
        \/ conn_refresh(c)
        \/ conn_stop(c)

TwoStreamSpec == TwoStreamInit /\ [][TwoStreamNext]_vars
----------------------------------------------------------------------------
(* Properties of the parser.                                               *)

IsText(t) == t \in Seq(STRING)

\* C1: whatever the LLM response text and the transcript argument are (the
\* empty string included), _parse_soap_response returns a mapping with exactly
\* the keys subjective, objective, assessment and plan, each a non-empty string.
C1_FourNonEmptySections ==
    p_pc = "done" =>
        /\ DOMAIN p_result = Sections
        /\ \A s \in Sections : IsText(p_result[s]) /\ p_result[s] # <<>>

\* the parser has returned for an empty response text and an empty transcript
C1_Witness ==
    /\ p_pc = "done"
    /\ p_soap_text = <<>>
    /\ p_transcription = <<>>
    /\ p_result.objective = Placeholder("objective")

\* the lines of a text, and whether a line starts with some section marker
LinesOf(text) == split(text, <<"\n">>)

StartsWithMarker(line) ==
    \E s \in Sections : \E j \in 1..Len(section_markers[s]) :
        startswith(lower(strip(line)), section_markers[s][j])

ExplicitMarker(s) == section_markers[s][1]

StartsWithExplicitMarker(line, s) ==
    startswith(lower(strip(line)), ExplicitMarker(s))

\* the text has a line starting with each of the four ===SECTION=== markers
HasFourMarkerLines(text) ==
    \A s \in Sections :
        \E i \in 1..Len(LinesOf(text)) : StartsWithExplicitMarker(LinesOf(text)[i], s)

\* the text between the ===SECTION=== marker of s and the next such marker
\* (or the end of the text), found by position in the text
MarkerPos(text, s) == find(lower(text), ExplicitMarker(s), 0)

Between(text, s) ==
    LET from   == MarkerPos(text, s) + Len(ExplicitMarker(s))
        nexts  == {MarkerPos(text, o) : o \in Sections \ {s}}
        after  == {p \in nexts : p >= from}
        to     == IF after = {} THEN Len(text)
                  ELSE CHOOSE p \in after : \A q \in after : p <= q
    IN  slice(text, from, to)

\* C3 as stated: with the four explicit marker lines present, the marker scan
\* returns for each section the text between its marker and the next marker,
\* verbatim apart from trimming leading and trailing whitespace.
C3_VerbatimBetweenMarkers ==
    (p_pc = "scanned" /\ HasFourMarkerLines(p_soap_text)) =>
        \A s \in Sections : strip(p_sections[s]) = strip(Between(p_soap_text, s))

\* the four explicit marker lines are the only lines that start with a marker,
\* one for each section
OnlyFourMarkerLines(text) ==
    LET lines == LinesOf(text)
    IN  /\ \A i \in 1..Len(lines) :
              StartsWithMarker(lines[i]) =>
                  \E s \in Sections : StartsWithExplicitMarker(lines[i], s)
        /\ \A s \in Sections :
              Cardinality({i \in 1..Len(lines) : StartsWithExplicitMarker(lines[i], s)}) = 1

\* what follows a marker on its line does not begin with a colon or a hyphen
PlainMarkerLines(text) ==
    \A s \in Sections :
        LET rest == strip(Between(text, s))
        IN  rest = <<>> \/ Head(rest) \notin {":", "-"}

\* no blank line stands between two content lines of a section
NoInnerBlankLine(text) ==
    \A s \in Sections :
        LET lines == LinesOf(strip(Between(text, s)))
        IN  \A i \in 1..Len(lines) : Len(lines) = 1 \/ strip(lines[i]) # <<>>

TrimmedLines(text) ==
    LET lines == LinesOf(text)
    IN  join(<<"\n">>, [i \in 1..Len(lines) |-> strip(lines[i])])

\* C3 as amended: when the four explicit marker lines are the only lines that
\* start with a marker, nothing after a marker begins with ':' or '-', and no
\* blank line separates content lines, the marker scan returns for each section
\* the lines between its marker and the next marker, each trimmed.
C3_TrimmedLinesBetweenMarkers ==
    (/\ p_pc = "scanned"
     /\ OnlyFourMarkerLines(p_soap_text)
     /\ PlainMarkerLines(p_soap_text)
     /\ NoInnerBlankLine(p_soap_text)) =>
        \A s \in Sections :
            strip(p_sections[s]) = TrimmedLines(strip(Between(p_soap_text, s)))

\* the scan has run on a text that meets the conditions and has a section of
\* several lines and a section without content
C3_Witness ==
    /\ p_pc = "scanned"
    /\ OnlyFourMarkerLines(p_soap_text)
    /\ PlainMarkerLines(p_soap_text)
    /\ NoInnerBlankLine(p_soap_text)
    /\ contains(strip(p_sections.subjective), <<"\n">>)
    /\ p_sections.objective # <<>>
    /\ strip(p_sections.plan) = <<>>

\* no line of the text starts with a section marker
NoMarkerLine(text) ==
    \A i \in 1..Len(LinesOf(text)) : ~StartsWithMarker(LinesOf(text)[i])

\* no section keyword occurs in the lowercased text
NoKeyword(text) ==
    \A s \in Sections : \A j \in 1..Len(section_keywords[s]) :
        ~contains(lower(text), section_keywords[s][j])

\* the paragraphs of a text: the maximal runs of lines between empty lines,
\* trimmed, those that are blank left out
RECURSIVE Runs(_, _, _)
Runs(lines, i, run) ==
    LET flush == IF strip(join(<<"\n">>, run)) = <<>> THEN <<>>
                 ELSE <<strip(join(<<"\n">>, run))>>
    IN  IF i > Len(lines) THEN flush
        ELSE IF lines[i] = <<>> THEN flush \o Runs(lines, i + 1, <<>>)
        ELSE Runs(lines, i + 1, Append(run, lines[i]))

BlankLineParagraphs(text) == Runs(LinesOf(text), 1, <<>>)

\* C4: a text with no marker line and no keyword and at least four
\* blank-line-separated paragraphs is returned as paragraphs 1 to 4, in the
\* order subjective, objective, assessment, plan; further paragraphs are ignored.
C4_FourParagraphsInOrder ==
    (/\ p_pc = "done"
     /\ NoMarkerLine(p_soap_text)
     /\ NoKeyword(p_soap_text)
     /\ Len(BlankLineParagraphs(p_soap_text)) >= 4) =>
        LET paragraphs == BlankLineParagraphs(p_soap_text)
        IN  /\ p_result.subjective = paragraphs[1]
            /\ p_result.objective = paragraphs[2]
            /\ p_result.assessment = paragraphs[3]
            /\ p_result.plan = paragraphs[4]

\* the parser has returned for a text of five paragraphs
C4_Witness ==
    /\ p_pc = "done"
    /\ NoMarkerLine(p_soap_text)
    /\ NoKeyword(p_soap_text)
    /\ Len(BlankLineParagraphs(p_soap_text)) = 5
    /\ p_result.plan = BlankLineParagraphs(p_soap_text)[4]
    /\ p_result.subjective # p_result.objective

\* C5 as stated: a section empty after trimming becomes "<Section> information
\* to be documented.", except that an empty subjective becomes the transcript
\* when one was supplied; a non-empty section is returned trimmed.
C5_PlaceholderOrTrimmed ==
    p_pc = "done" =>
        \A s \in Sections :
            p_result[s] =
                IF strip(p_sections[s]) # <<>> THEN strip(p_sections[s])
                ELSE IF s = "subjective" /\ p_transcription # <<>> THEN p_transcription
                ELSE capitalize(s) \o <<" ","i","n","f","o","r","m","a","t","i","o","n"," ","t","o"," ","b","e"," ","d","o","c","u","m","e","n","t","e","d",".">>

\* C5 as amended: as stated for objective, assessment and plan; a subjective
\* section that is empty after trimming, or that reads "Subjective information
\* to be documented.", becomes the transcript when one was supplied and
\* otherwise "Patient symptoms and complaints to be documented.".
C5_PlaceholderOrTrimmedAmended ==
    p_pc = "done" =>
        /\ \A s \in Sections \ {"subjective"} :
              p_result[s] =
                  IF strip(p_sections[s]) # <<>> THEN strip(p_sections[s])
                  ELSE capitalize(s) \o <<" ","i","n","f","o","r","m","a","t","i","o","n"," ","t","o"," ","b","e"," ","d","o","c","u","m","e","n","t","e","d",".">>
        /\ p_result.subjective =
              IF /\ strip(p_sections.subjective) # <<>>
                 /\ strip(p_sections.subjective) # <<"S","u","b","j","e","c","t","i","v","e"," ","i","n","f","o","r","m","a","t","i","o","n"," ","t","o"," ","b","e"," ","d","o","c","u","m","e","n","t","e","d",".">>
              THEN strip(p_sections.subjective)
              ELSE IF p_transcription # <<>> THEN p_transcription
              ELSE <<"P","a","t","i","e","n","t"," ","s","y","m","p","t","o","m","s"," ","a","n","d"," ","c","o","m","p","l","a","i","n","t","s"," ","t","o"," ","b","e"," ","d","o","c","u","m","e","n","t","e","d",".">>

\* post-processing has run on a subjective section that needed trimming and an
\* empty plan, with a transcript supplied
C5_Witness ==
    /\ p_pc = "done"
    /\ p_transcription # <<>>
    /\ p_sections.subjective # strip(p_sections.subjective)
    /\ strip(p_sections.subjective) # <<>>
    /\ strip(p_sections.plan) = <<>>
    /\ p_result.plan = <<"P","l","a","n"," ","i","n","f","o","r","m","a","t","i","o","n"," ","t","o"," ","b","e"," ","d","o","c","u","m","e","n","t","e","d",".">>


----------------------------------------------------------------------------
(* The notes handed to clients.                                            *)

NonEmptyNote(note) ==
    \A s \in Sections : IsText(note[s]) /\ note[s] # <<>>

\* C2: every SOAP note handed to a client - in a successful response of the
\* two clinical HTTP endpoints, in a soap_update message and in the final
\* message of a stream - has four non-empty fields
C2_EveryNoteHasFourNonEmptyFields ==
    /\ (request.op \in {"transcribe", "text_to_soap"} /\ response.status = 200) =>
           NonEmptyNote(response.body.soap_note)
    /\ \A i \in 1..Len(sent) :
           sent[i].type \in {"soap_update", "final"} => NonEmptyNote(sent[i].soap)

----------------------------------------------------------------------------
(* The diary store.                                                        *)

HasId(entries, entry_id) == \E i \in 1..Len(entries) : entries[i].id = entry_id

\* C6: a delete request for an id that no stored entry carries leaves the
\* collection, contents and order, as it was and is answered with 404
C6_DeleteAbsentLeavesStore ==
    [][(request'.op = "delete" /\ ~HasId(diary_entries, request'.entry_id)) =>
           (diary_entries' = diary_entries /\ response'.status = 404)]_vars

C6_Witness ==
    /\ request.op = "delete"
    /\ response.status = 404
    /\ Len(diary_entries) >= 2
    /\ ~HasId(diary_entries, request.entry_id)

\* C7: no two entries of the collection have the same id
C7_UniqueIds ==
    \A i, j \in 1..Len(diary_entries) :
        i # j => diary_entries[i].id # diary_entries[j].id

C7_Witness ==
    /\ request.op = "delete"
    /\ response.status = 200
    /\ Len(diary_entries) >= 2
    /\ next_uuid > MaxIds

\* the request supplies non-empty text, or audio that the recognizer turned
\* into non-empty text
SuppliesText(r) ==
    \/ r.text # <<>>
    \/ (r.outcome.reason = "RecognizedSpeech" /\ strip(r.outcome.text) # <<>>)

\* C8: a create request that supplies non-empty text, or audio transcribed to
\* non-empty text, is answered with success and appends exactly one entry,
\* which carries the id, text and entry type of the response, whatever the
\* suggestion completion does; one answered with an error leaves the
\* collection as it was
C8_CreateAppendsOneEntry ==
    [][request'.op = "create" =>
          /\ SuppliesText(request') =>
                /\ response'.status = 200
                /\ diary_entries' =
                      Append(diary_entries,
                             [id |-> response'.body.id, text |-> response'.body.text,
                              entry_type |-> response'.body.entry_type,
                              timestamp |-> response'.body.timestamp])
                /\ response'.body.entry_type = request'.entry_type
                /\ response'.body.text =
                      IF request'.text # <<>> THEN request'.text
                      ELSE strip(request'.outcome.text)
          /\ response'.status # 200 => diary_entries' = diary_entries]_vars

C8_Witness ==
    /\ request.op = "create"
    /\ request.text = <<>>
    /\ request.reply = LLMFailure
    /\ response.status = 200
    /\ Len(diary_entries) >= 2
    /\ diary_entries[Len(diary_entries)].id = response.body.id

----------------------------------------------------------------------------
(* The audio of the diary-entry and clinical-transcribe requests.          *)

AudioRequest == request.op \in {"create", "transcribe"}

\* the decoded payload has fewer than 1000 bytes
ShortAudio == request.audio_data.decodable /\ request.audio_data.length < MinAudioBytes

\* the endpoint transcribes the audio: the diary endpoint only when the
\* request has no text
AudioTranscribed ==
    /\ request.audio_data.present
    /\ request.op = "create" => request.text = <<>>

BadAudio ==
    \/ ~request.audio_data.decodable
    \/ ~validate_audio_format(request.audio_data)
    \/ request.audio_data.length < MinAudioBytes
    \/ request.outcome.reason \in {"NoMatch", "Canceled"}
    \/ (request.outcome.reason = "RecognizedSpeech" /\ strip(request.outcome.text) = <<>>)

\* C10: in both endpoints a request whose transcribed audio is malformed, too
\* short or not recognised is answered with a 4xx status and a message
C10_BadAudioIsClientError ==
    (AudioRequest /\ AudioTranscribed /\ BadAudio) =>
        (response.status \in 400..499 /\ response.detail # "")


----------------------------------------------------------------------------
(* generate_soap_note.                                                     *)

NoteCall == request.op = "generate_soap_note"

RuleBasedNote == response.note = generate_fallback_soap(request.transcription)

\* a completion of the differential diagnosis failed
DiagnosisCallFailed ==
    request.ext.symptoms = "fail" \/ request.ext.elimination = "fail"

\* the note completion was asked for and failed, or the second one was
NoteCallFailed ==
    \/ (request.ext.entries_ok /\ ~request.ext.generation.ok)
    \/ (RetryAsked(request.ext.generation) /\ ~request.ext.retry.ok)

\* C11 as stated: generate_soap_note returns a note of four non-empty fields,
\* and returns the rule-based note of the transcript whenever the LLM client
\* is missing or any external call on the path failed
C11_AnyFailureGivesRuleBasedNote ==
    NoteCall =>
        /\ NonEmptyNote(response.note)
        /\ (~openai_available \/ DiagnosisCallFailed \/ NoteCallFailed) => RuleBasedNote

\* C11 amended: generate_soap_note returns a note of four non-empty fields,
\* and returns the rule-based note of the transcript whenever the LLM client
\* is missing, the diary entries cannot be read, the note completion fails
\* or the second note completion fails
C11_NoteFailureGivesRuleBasedNote ==
    NoteCall =>
        /\ NonEmptyNote(response.note)
        /\ (~openai_available \/ ~request.ext.entries_ok \/ NoteCallFailed) => RuleBasedNote

C11_Witness ==
    /\ NoteCall
    /\ openai_available
    /\ request.ext.symptoms = "some"
    /\ RetryAsked(request.ext.generation)
    /\ ~request.ext.retry.ok
    /\ RuleBasedNote
    /\ calls[Len(calls)] = "llm_retry"

----------------------------------------------------------------------------
(* The clinical endpoints.                                                 *)

\* the notes generate_soap_note can produce for a transcript
NotesFor(t) ==
    { made.note : made \in SoapResultsFor(t, TRUE) \cup SoapResultsFor(t, FALSE) }

\* the recognizer turned the audio of the request into non-empty text
Recognised ==
    request.outcome.reason = "RecognizedSpeech" /\ strip(request.outcome.text) # <<>>

\* C12: a text-to-SOAP request with non-empty text is answered with success,
\* the text as transcription and a note generate_soap_note produced for it;
\* a clinical-transcribe request whose audio is recognised is answered with
\* success, the recognised text as transcription and such a note
C12_ClinicalRequestsSucceed ==
    /\ (request.op = "text_to_soap" /\ request.text # <<>>) =>
           /\ response.status = 200
           /\ response.body.transcription = request.text
           /\ response.body.soap_note \in NotesFor(request.text)
    /\ (request.op = "transcribe" /\ Recognised) =>
           /\ response.status = 200
           /\ response.body.transcription = strip(request.outcome.text)
           /\ response.body.soap_note \in NotesFor(strip(request.outcome.text))

\* C13: a diary-summary request is answered with success and the number of
\* stored entries as total_entries, and leaves the collection as it was
C13_SummarySucceeds ==
    [][request'.op = "summary" =>
          /\ response'.status = 200
          /\ response'.body.total_entries = Len(diary_entries)
          /\ diary_entries' = diary_entries]_vars

----------------------------------------------------------------------------
(* The dictation stream.                                                   *)

FinalMessages == { i \in 1..Len(sent) : sent[i].type = "final" }

\* the stop message of a client that stays connected has been handled
StopHandled == ws_pc = "draining" /\ connected

\* the connection is closed and one final message went out, which carries
\* the transcript and a note of four non-empty sections
FinalDelivered ==
    /\ ws_pc = "closed"
    /\ Cardinality(FinalMessages) = 1
    /\ \A i \in FinalMessages :
          /\ sent[i].transcription = current_transcript
          /\ NonEmptyNote(sent[i].soap)

\* C14: in a session where the init message started the recognizer the first
\* message sent is ready; no session has more than one final message; and
\* after the stop message of a connected client the server eventually has
\* sent exactly one final message with the combined transcript and a note of
\* four sections
C14_ReadyThenOneFinal ==
    /\ [](recognizing => (sent # <<>> /\ sent[1].type = "ready"))
    /\ [](Cardinality(FinalMessages) <= 1)
    /\ (StopHandled ~> FinalDelivered)

C14_Witness ==
    /\ FinalDelivered
    /\ connected
    /\ frames >= 1
    /\ sent[1].type = "ready"
    /\ current_transcript = <<"f","e","v","e","r"," ","c","o","u","g","h"," ","a","n","d"," ","p","a","i","n">>

\* the handler has left its receive loop
LoopLeft == ws_pc \in {"draining", "stopped", "closing", "closed"}

\* the update task has ended, or was never created
TaskEnded ==
    /\ task_pc \in {"cancelled", "none"}
    /\ in_flight = <<>>
    /\ pending_update = <<>>

RECURSIVE CountOfType(_, _)
CountOfType(msgs, type) ==
    IF msgs = <<>> THEN 0
    ELSE (IF Head(msgs).type = type THEN 1 ELSE 0) + CountOfType(Tail(msgs), type)

\* C15: once the handler has left the receive loop the update task has
\* ended, and that before recognition is stopped, the stream closed and the
\* final note generated; from then on no soap_update is sent; nothing that
\* carries a note follows the final message
C15_TaskEndsBeforeDrain ==
    /\ [](LoopLeft => TaskEnded)
    /\ [][LoopLeft => CountOfType(sent', "soap_update") = CountOfType(sent, "soap_update")]_vars
    /\ [](\A i \in FinalMessages : \A j \in (i + 1)..Len(sent) :
              sent[j].type \notin {"soap_update", "final"})

C15_Witness ==
    /\ ws_pc = "closed"
    /\ sent # <<>>
    /\ sent[Len(sent)].type = "final"
    /\ CountOfType(sent, "soap_update") >= 1
    /\ update_buffer # <<>>

\* C16: a refresh reads the finalized fragments of the buffer in the order
\* they arrived, and the fragments it removes from the buffer are the ones
\* it has read
C16_FragmentsReadOnceInOrder ==
    [][/\ (task_pc = "sleeping" /\ task_pc' \in {"read", "cleared"}) =>
              final_chunks' = FinalTexts(update_buffer)
       /\ (task_pc = "read" /\ task_pc' = "cleared") =>
              FinalTexts(update_buffer) = final_chunks]_vars

\* a refresh could begin: the transcript is long enough and the bound on
\* refreshes is not reached
RefreshDue ==
    /\ updates < MaxUpdates
    /\ Len(strip(current_transcript)) > MinTranscriptChars

\* C17 as stated: update calls can be in flight together: while one is in
\* flight the task can begin the next refresh
C17_UpdateCallsOverlap ==
    (in_flight # <<>> /\ RefreshDue) => ENABLED task_read

\* C17 amended: at most one update call is in flight, and the note its
\* answer replaces is the note the call was issued with
C17_UpdateCallsOneAtATime ==
    /\ Len(in_flight) <= 1
    /\ in_flight # <<>> => in_flight[1].prior_soap = current_soap

C17_Witness ==
    /\ updates = 2
    /\ in_flight # <<>>
    /\ current_soap # InitialSoap
    /\ in_flight[1].full_transcript # current_transcript
    /\ CountOfType(sent, "soap_update") = 1

----------------------------------------------------------------------------
(* Retries, deletion, the order of the parser's strategies.                *)

RECURSIVE CountIn(_, _)
CountIn(q, S) ==
    IF q = <<>> THEN 0
    ELSE (IF Head(q) \in S THEN 1 ELSE 0) + CountIn(Tail(q), S)

\* C18: one call of generate_soap_note issues the note-generating completion
\* at most once
C18_NoteCompletionIssuedOnce ==
    NoteCall => CountIn(calls, {"llm_soap", "llm_retry"}) <= 1

\* the positions of the entries with another id, and how many of them stand
\* at or before a position
KeptPositions(entries, entry_id) ==
    { i \in 1..Len(entries) : entries[i].id # entry_id }

RankAmong(S, i) == Cardinality({ k \in S : k <= i })

\* C19: a delete request for an id that is present is answered with success,
\* leaves no entry with that id and leaves every other entry, unmodified and
\* in the same relative order; a delete of the same id that follows is
\* answered with 404
C19_DeletePresentRemovesOnlyThatId ==
    [][/\ (request'.op = "delete" /\ HasId(diary_entries, request'.entry_id)) =>
              LET kept == KeptPositions(diary_entries, request'.entry_id)
              IN  /\ response'.status = 200
                  /\ ~HasId(diary_entries', request'.entry_id)
                  /\ Len(diary_entries') = Cardinality(kept)
                  /\ \A i \in kept : diary_entries'[RankAmong(kept, i)] = diary_entries[i]
       /\ (/\ request.op = "delete" /\ response.status = 200
           /\ request'.op = "delete" /\ request'.entry_id = request.entry_id) =>
              response'.status = 404]_vars

C19_Witness ==
    /\ request.op = "delete"
    /\ response.status = 200
    /\ request.entry_id = 2
    /\ Len(diary_entries) = 2
    /\ diary_entries[1].id = 1
    /\ diary_entries[2].id = 3

\* what the keyword scan would put into the sections
KeywordSections == [s \in Sections |-> KeywordSection(p_soap_text, s)]

\* C20: the keyword scan and the paragraph split leave the sections as they
\* find them unless all four are empty, so the sections that reach
\* post-processing are those of the first strategy that filled any
C20_FirstStrategyWins ==
    [][/\ (p_pc = "scanned" /\ p_sections # EmptySections) => p_sections' = p_sections
       /\ (p_pc = "keyworded" /\ p_sections # EmptySections) => p_sections' = p_sections
       /\ p_pc = "split" => p_sections' = p_sections]_vars

C20_Witness ==
    /\ p_pc = "split"
    /\ p_sections # EmptySections
    /\ p_sections = MarkerScan(p_soap_text)
    /\ KeywordSections # EmptySections
    /\ KeywordSections # p_sections

----------------------------------------------------------------------------
(* Properties of the marker scan, line by line.                            *)

\* the section whose marker the line starts with, "" when it starts with none
MarkedSection(line) ==
    LET k == FirstMarker(lower(strip(line)), 1)
    IN  IF k = 0 THEN "" ELSE MarkerList[k].section

\* the last line that starts with a marker of s, 0 when there is none
LastMarkerLine(lines, s) ==
    LET hits == {i \in 1..Len(lines) : MarkedSection(lines[i]) = s}
    IN  IF hits = {} THEN 0 ELSE Max(hits)

\* the first line after line m that starts with a marker, or one past the end
NextMarkerLine(lines, m) ==
    LET hits == {i \in (m + 1)..Len(lines) : MarkedSection(lines[i]) # ""}
    IN  IF hits = {} THEN Len(lines) + 1 ELSE Min(hits)

\* what follows the marker on a marker line
TrailingText(line) ==
    Remaining(strip(line), MarkerList[FirstMarker(lower(strip(line)), 1)].marker)

NonEmptyOnes(q) == SelectSeq(q, LAMBDA x : x # <<>>)

\* the trailing text of the last marker line of s, then the non-blank lines
\* that follow it up to the next marker line, each trimmed
ContentLines(text, s) ==
    LET lines == LinesOf(text)
        m     == LastMarkerLine(lines, s)
        n     == NextMarkerLine(lines, m)
    IN  IF m = 0 THEN <<>>
        ELSE NonEmptyOnes(<<TrailingText(lines[m])>>
                          \o [i \in 1..(n - m - 1) |-> strip(lines[m + i])])

\* C21: after the marker scan, the lines of each section are the non-blank
\* lines that start with no marker and follow the section's marker line, up to
\* the next marker line, in input order and each once (after the text that
\* trails the marker); a marker line of another section ends the section and
\* gives it nothing, and the lines ahead of the first marker line are in no
\* section.
C21_LinesGoToTheCurrentSection ==
    p_pc = "scanned" =>
        \A s \in Sections :
            NonEmptyOnes(LinesOf(p_sections[s])) = ContentLines(p_soap_text, s)

\* the scan has run on a text with lines ahead of the first marker line, a
\* section of several lines and a later section that took over
C21_Witness ==
    /\ p_pc = "scanned"
    /\ MarkedSection(LinesOf(p_soap_text)[1]) = ""
    /\ strip(LinesOf(p_soap_text)[1]) # <<>>
    /\ Len(NonEmptyOnes(LinesOf(p_sections.subjective))) >= 2
    /\ Len(NonEmptyOnes(LinesOf(p_sections.plan))) >= 2

\* the text from line m on
SuffixFrom(text, m) ==
    LET lines == LinesOf(text)
    IN  join(<<"\n">>, SubSeq(lines, m, Len(lines)))

\* what the marker scan gathers for s from its last marker line on
FromLastMarker(text, s) ==
    MarkerScan(SuffixFrom(text, LastMarkerLine(LinesOf(text), s)))[s]

\* the lines that start with a marker of s
MarkerLinesOf(text, s) ==
    LET lines == LinesOf(text)
    IN  {i \in 1..Len(lines) : MarkedSection(lines[i]) = s}

\* what post-processing puts in place of a section
FillIns(s, transcription) ==
    {Placeholder(s), transcription, PatientSymptomsPlaceholder}

\* C22 as stated: when several lines start with a marker of a section (a
\* repeated marker, or a content line starting with a short marker), what is
\* returned for the section is only the text from the last such line onward
\* (or what post-processing puts in place of a blank section), never what was
\* gathered before it.
C22_OnlyTextFromLastMarkerReturned ==
    p_pc = "done" =>
        \A s \in Sections :
            Cardinality(MarkerLinesOf(p_soap_text, s)) >= 2 =>
                p_result[s] \in {strip(FromLastMarker(p_soap_text, s))}
                                \cup FillIns(s, p_transcription)

\* the marker scan leaves some section non-empty
ScanFindsText(text) ==
    \E o \in Sections :
        /\ LastMarkerLine(LinesOf(text), o) > 0
        /\ FromLastMarker(text, o) # <<>>

\* C22 as amended: a marker line makes its section current and sets the
\* section's content to the text trailing the marker, so after the marker scan
\* a section starts with the text trailing its last marker line and, when it
\* is marked several times, holds only what that line and the lines after it
\* give;
\* and when the scan leaves some section non-empty, what is returned for a
\* section marked several times is that text (or what post-processing puts in
\* place of a blank section).
C22_LastMarkerLineSeedsTheSection ==
    /\ p_pc = "scanned" =>
          \A s \in Sections :
              LET marked == MarkerLinesOf(p_soap_text, s)
              IN  /\ marked # {} =>
                        startswith(p_sections[s],
                                   TrailingText(LinesOf(p_soap_text)[Max(marked)]))
                  /\ Cardinality(marked) >= 2 =>
                        p_sections[s] = FromLastMarker(p_soap_text, s)
    /\ p_pc = "done" =>
          \A s \in Sections :
              (/\ Cardinality(MarkerLinesOf(p_soap_text, s)) >= 2
               /\ ScanFindsText(p_soap_text)) =>
                  p_result[s] \in {strip(FromLastMarker(p_soap_text, s))}
                                  \cup FillIns(s, p_transcription)

\* the parser has returned for a text whose assessment section has a content
\* line starting with "diagnosis:": the lines gathered before it are gone
C22_Witness ==
    /\ p_pc = "done"
    /\ p_soap_text = <<"A",":"," ","a","b","\n","c","d","\n","d","i","a","g","n","o","s","i","s",":"," ","f","l","u","\n","r","e","s","t","\n","P",":"," ","e","f">>
    /\ p_result.assessment = <<"f","l","u","\n","r","e","s","t">>
    /\ p_result.plan = <<"e","f">>

----------------------------------------------------------------------------
(* Properties of the keyword scan.                                         *)

\* the keywords of a section, and those of the other sections
KeywordsOf(s) == {section_keywords[s][j] : j \in 1..Len(section_keywords[s])}

\* 0-based positions at which a keyword of the set occurs in the text
Occurs(text_lower, kw, i) ==
    i + Len(kw) <= Len(text_lower) /\ OccursAt(text_lower, kw, i)

PositionsOf(text_lower, kws) ==
    {i \in 0..Len(text_lower) : \E kw \in kws : Occurs(text_lower, kw, i)}

\* the substring from `from` to the nearest position at or after it where a
\* keyword of another section occurs (or to the end), trimmed, leading colons
\* removed
UpToNextSection(text, s, from) ==
    LET nexts == {i \in PositionsOf(lower(text), UNION {KeywordsOf(o) : o \in Sections \ {s}}) :
                     i >= from}
        to    == IF nexts = {} THEN Len(text) ELSE Min(nexts)
    IN  strip(lstrip_chars(strip(slice(text, from, to)), {":"}))

\* the keyword scan is about to run: the marker scan has left nothing
KeywordScanDue == p_pc = "scanned" /\ \A s \in Sections : p_sections[s] = <<>>

\* C23 as stated: when the keyword scan runs, a section with a keyword in the
\* lowercased text receives the substring from just after the first
\* occurrence in the text of any of its keywords to the nearest following
\* occurrence of a keyword of another section, or to the end of the text
\* (compared after trimming).
C23_FromEarliestKeywordOccurrence ==
    [][KeywordScanDue =>
         \A s \in Sections :
            LET text_lower == lower(p_soap_text)
                at         == PositionsOf(text_lower, KeywordsOf(s))
            IN  at # {} =>
                   \E kw \in KeywordsOf(s) :
                      /\ Occurs(text_lower, kw, Min(at))
                      /\ p_sections'[s] = UpToNextSection(p_soap_text, s, Min(at) + Len(kw))
      ]_vars

\* C23 as amended: when the keyword scan runs, a section with a keyword in the
\* lowercased text receives the substring from just after the first
\* occurrence of the first keyword of its keyword list that occurs in the text
\* to the nearest following occurrence of a keyword of another section, or to
\* the end of the text, trimmed and without leading colons; a section with no
\* keyword in the text stays empty.
C23_FromFirstListedKeyword ==
    [][KeywordScanDue =>
         \A s \in Sections :
            LET text_lower == lower(p_soap_text)
                listed     == {j \in 1..Len(section_keywords[s]) :
                                  PositionsOf(text_lower, {section_keywords[s][j]}) # {}}
            IN  IF listed = {} THEN p_sections'[s] = <<>>
                ELSE LET kw == section_keywords[s][Min(listed)]
                     IN  p_sections'[s] =
                            UpToNextSection(p_soap_text, s,
                                Min(PositionsOf(text_lower, {kw})) + Len(kw))
      ]_vars

\* the keyword scan has run on a text in which "treatment" comes before "plan"
\* and "hpi" before "chief complaint"
C23_Witness ==
    /\ p_pc = "keyworded"
    /\ p_soap_text = <<"h","p","i",":"," ","t","w","o"," ","d","a","y","s","."," ","c","h","i","e","f"," ","c","o","m","p","l","a","i","n","t",":"," ","c","o","u","g","h","."," ","e","x","a","m",":"," ","c","l","e","a","r","."," ","t","r","e","a","t","m","e","n","t",":"," ","r","e","s","t","."," ","p","l","a","n",":"," ","f","l","u","i","d","s">>
    /\ p_sections.subjective = <<"c","o","u","g","h",".">>
    /\ p_sections.objective = <<"c","l","e","a","r",".">>
    /\ p_sections.assessment = <<>>
    /\ p_sections.plan = <<"f","l","u","i","d","s">>

----------------------------------------------------------------------------
(* Properties of the total fallback.                                       *)

\* the marker scan and the keyword scan have left nothing and the text has no
\* paragraph to assign
TotalFallbackDue ==
    /\ p_pc = "keyworded"
    /\ \A s \in Sections : p_sections[s] = <<>>
    /\ Paragraphs(p_soap_text) = <<>>

\* the parser has returned after the total fallback made the text the
\* subjective section
TotalFallbackTaken ==
    /\ p_pc = "done"
    /\ Paragraphs(p_soap_text) = <<>>
    /\ p_sections = [EmptySections EXCEPT !.subjective = p_soap_text]

\* C24 as stated: when the three strategies leave every section empty, the
\* total fallback makes the whole text the subjective section and the
\* subjective field returned is the whole text, trimmed.
C24_WholeTextReturned ==
    TotalFallbackTaken => p_result.subjective = strip(p_soap_text)

\* C24 as amended: when the three strategies leave every section empty, the
\* total fallback makes the whole text the subjective section; the text is
\* then blank, and the subjective field returned is the transcript, or the
\* patient-symptoms placeholder when the transcript is empty.
C24_BlankTextGivesTranscriptOrPlaceholder ==
    /\ [][TotalFallbackDue =>
            p_sections' = [EmptySections EXCEPT !.subjective = p_soap_text]]_vars
    /\ [](TotalFallbackTaken =>
            /\ strip(p_soap_text) = <<>>
            /\ p_result.subjective = IF p_transcription # <<>> THEN p_transcription
                                     ELSE PatientSymptomsPlaceholder)

\* the parser has returned for a text of blank paragraphs and a transcript
C24_Witness ==
    /\ TotalFallbackTaken
    /\ p_soap_text = <<" ","\n","\n"," ">>
    /\ p_transcription = <<"t","x">>
    /\ p_result.subjective = <<"t","x">>

----------------------------------------------------------------------------
(* Properties of the stream: the final message and the refreshes.          *)

NoSpeechDetected == <<"N","o"," ","s","p","e","e","c","h"," ","d","e","t","e","c","t","e","d",".">>

AnswerTaken == pending_update = <<>> /\ pending_update' # <<>>

\* a soap_update message goes out
UpdateGoesOut ==
    /\ Len(sent') = Len(sent) + 1
    /\ sent'[Len(sent')].type = "soap_update"

\* C29: the changed_sections of a soap_update message are exactly the
\* sections, in the order subjective, objective, assessment, plan, whose value
\* in the refreshed note differs from the note held right before the refresh,
\* and after the refresh the held note is the note of the message.
C29_ChangedSectionsAreTheDifferences ==
    [][/\ AnswerTaken =>
            LET msg == pending_update'[1]
            IN  /\ msg.type = "soap_update"
                /\ msg.changed_sections =
                      SelectSeq(SectionOrder, LAMBDA s : msg.soap[s] # current_soap[s])
                /\ current_soap' = msg.soap
       /\ UpdateGoesOut =>
            /\ pending_update # <<>>
            /\ sent'[Len(sent')] = pending_update[1]
            /\ current_soap = pending_update[1].soap]_vars

\* a soap_update that changed two sections or more has gone out and the held
\* note is the note it carried
C29_Witness ==
    /\ sent # <<>>
    /\ sent[Len(sent)].type = "soap_update"
    /\ Len(sent[Len(sent)].changed_sections) >= 2
    /\ Len(sent[Len(sent)].changed_sections) < 4
    /\ current_soap = sent[Len(sent)].soap

\* the update call gets no note from the LLM: the client is missing, the diary
\* entries cannot be read or the completion fails
Failed(call) == ~openai_available \/ ~entries_ok \/ ~call.reply.ok

\* the answer of a failed update call is taken
FailedAnswerTaken == AnswerTaken /\ Len(in_flight) = 1 /\ Failed(in_flight[1])

\* the refresh changes nothing: the held note stays and the message lists no
\* section
NothingRefreshed ==
    /\ current_soap' = current_soap
    /\ pending_update'[1] = [type |-> "soap_update", soap |-> current_soap,
                             changed_sections |-> <<>>]

\* all fragments the refreshes have read, in the order they were read
RECURSIVE AllRead(_)
AllRead(log) == IF log = <<>> THEN <<>> ELSE Head(log).read \o AllRead(Tail(log))

\* a can be got from b by leaving elements out
RECURSIVE IsSubsequence(_, _)
IsSubsequence(a, b) ==
    IF a = <<>> THEN TRUE
    ELSE IF b = <<>> THEN FALSE
    ELSE IF Head(a) = Head(b) THEN IsSubsequence(Tail(a), Tail(b))
    ELSE IsSubsequence(a, Tail(b))

\* C28 as stated: a refresh whose update call fails (or finds no LLM client)
\* leaves the held note as it is and emits a soap_update with no changed
\* section, and the fragments read for it are not offered to a later refresh
\* as its new text.
C28_FailedRefreshDropsItsFragments ==
    /\ (\A i \in 1..Len(refreshes) : refreshes[i].failed) =>
          /\ current_soap = InitialSoap
          /\ \A m \in 1..Len(sent) :
                sent[m].type = "soap_update" =>
                    sent[m].changed_sections = <<>> /\ sent[m].soap = InitialSoap
    /\ \A i \in 1..Len(refreshes) : \A j \in (i + 1)..Len(refreshes) :
          refreshes[i].failed =>
              \A k \in 1..Len(refreshes[i].read) :
                  ~contains(refreshes[j].new_text_chunk, refreshes[i].read[k])

\* C28 as amended: a refresh whose update call fails (or finds no LLM client)
\* leaves the held note as it is and emits a soap_update with no changed
\* section; the fragments read for it are cleared from the buffer before the
\* call and no later refresh reads them from the buffer again, but every later
\* refresh is given them within the full transcript, which is also its
\* new-text chunk when it has read no fragment.
C28_FailedRefreshKeepsTheNote ==
    /\ [][/\ FailedAnswerTaken => NothingRefreshed
          /\ (task_pc = "read" /\ task_pc' = "cleared") => update_buffer' = <<>>]_vars
    /\ [](/\ IsSubsequence(AllRead(refreshes), finalized)
          /\ \A j \in 1..Len(refreshes) :
                /\ refreshes[j].new_text_chunk =
                      IF join(<<" ">>, refreshes[j].read) # <<>>
                      THEN join(<<" ">>, refreshes[j].read)
                      ELSE refreshes[j].full_transcript
                /\ \A i \in 1..(j - 1) : \A k \in 1..Len(refreshes[i].read) :
                      contains(refreshes[j].full_transcript, refreshes[i].read[k]))

\* a refresh failed on fragments it had read, its soap_update listed no
\* section, and a later refresh with nothing to read was given the whole
\* transcript as its new text
C28_Witness ==
    /\ Len(refreshes) = 2
    /\ refreshes[1].failed /\ refreshes[1].read # <<>>
    /\ refreshes[2].read = <<>>
    /\ refreshes[2].new_text_chunk = current_transcript
    /\ \E i \in 1..Len(sent) :
          sent[i].type = "soap_update" /\ sent[i].changed_sections = <<>>
    /\ current_soap = InitialSoap

----------------------------------------------------------------------------
(* The doctor lookup.                                                      *)

\* a doctor lookup has been answered
DoctorsAnswered == request.op = "get_doctors"

\* the text the lookup works on
CombinedText == strip(request.assessment \o <<" ">> \o request.transcription)

\* the lookup made a call of this kind
Asked(op) == \E i \in 1..Len(calls) : calls[i].op = op

\* the specialty the registry is first asked for
FirstQueried ==
    calls[CHOOSE i \in 1..Len(calls) :
            calls[i].op = "registry" /\ \A j \in 1..(i - 1) : calls[j].op # "registry"
         ].taxonomy_description

\* some keyword of group g occurs in the text
GroupOccurs(g) ==
    \E keyword \in SpecialtyKeywords[g][1] : contains(lower(CombinedText), keyword)

\* the numbers of the registry results that have a name, in registry order
RECURSIVE NamedNumbers(_)
NamedNumbers(results) ==
    IF results = <<>> THEN <<>>
    ELSE LET r == Head(results)
         IN  (IF r.organization_name = <<>> /\ strip(r.first_name) = <<>>
                 /\ strip(r.last_name) = <<>>
              THEN <<>> ELSE <<r.number>>)
             \o NamedNumbers(Tail(results))

\* the registry numbers of the doctors returned
ReturnedNumbers ==
    [i \in 1..Len(response.body.doctors) |-> response.body.doctors[i].npi]

\* a registry query of the lookup failed
RegistryFailed ==
    \/ request.ext.registry.kind # "json"
    \/ /\ Len(calls) > 0
       /\ calls[Len(calls)] = [op |-> "registry", taxonomy_description |-> FamilyMedicine]
       /\ Len(SelectSeq(calls, LAMBDA c : c.op = "registry")) = 2
       /\ request.ext.fallback.kind # "json"

\* C26: the doctor lookup never fails hard: every response is a success
\* carrying a doctors list; when the classification call fails the registry is
\* asked for a specialty chosen by the keywords of the text, Family Medicine
\* when none occurs; when the ranking call fails the doctors are the named
\* registry results in registry order cut at the search limit; when a
\* registry query fails the doctors list is empty and a message is given.
C26_LookupNeverFailsHard ==
    DoctorsAnswered =>
        /\ response.status = 200
        /\ "doctors" \in DOMAIN response.body
        /\ DOMAIN response.body.doctors = 1..Len(response.body.doctors)
        /\ (Asked("llm_specialty") /\ ~request.ext.classification.ok) =>
              \/ \E g \in 1..Len(SpecialtyKeywords) :
                    GroupOccurs(g) /\ FirstQueried = SpecialtyKeywords[g][2]
              \/ /\ \A g \in 1..Len(SpecialtyKeywords) : ~GroupOccurs(g)
                 /\ FirstQueried = FamilyMedicine
        /\ (Asked("llm_ranking") /\ ~request.ext.ranking.ok) =>
              ReturnedNumbers = Truncated(NamedNumbers(request.ext.registry.results),
                                          request.search_limit)
        /\ RegistryFailed =>
              /\ response.body.doctors = <<>>
              /\ "message" \in DOMAIN response.body

\* both LLM calls failed: the registry was asked for Pulmonology because of
\* "cough", and the first two of its three named results came back
C26_Witness ==
    /\ DoctorsAnswered
    /\ Asked("llm_specialty") /\ ~request.ext.classification.ok
    /\ Asked("llm_ranking") /\ ~request.ext.ranking.ok
    /\ FirstQueried = <<"P","u","l","m","o","n","o","l","o","g","y">>
    /\ request.search_limit = 2
    /\ ReturnedNumbers = <<"1001", "1002">>
    /\ Len(NamedNumbers(request.ext.registry.results)) = 3

\* C30: whatever the ranking text, no registry provider is twice in the
\* doctors list returned.
C30_EachProviderAtMostOnce ==
    DoctorsAnswered =>
        \A i, j \in 1..Len(response.body.doctors) :
            i # j => response.body.doctors[i].npi # response.body.doctors[j].npi

----------------------------------------------------------------------------
(* Several connections.                                                    *)

\* the texts a message to the client carries
TextsOf(msg) ==
    IF msg.type = "transcription" THEN {msg.text, msg.full_transcript}
    ELSE IF msg.type = "soap_update" THEN {msg.soap[s] : s \in Sections}
    ELSE IF msg.type = "final"
    THEN {msg.transcription} \cup {msg.soap[s] : s \in Sections}
    ELSE {}

\* the text occurs in a message sent on connection c
ShownOn(c, text) ==
    \E m \in 1..Len(conn_io[c].sent) :
        \E t \in TextsOf(conn_io[c].sent[m]) : contains(t, text)

\* C25: two connections open at the same time share no transcript, fragment
\* buffer or note: a fragment recognised on one connection is in no
\* transcript, soap_update or final message of the other, however their
\* events interleave.
C25_ConnectionsShareNothing ==
    \A c \in Conns : \A d \in Conns \ {c} :
        \A k \in 1..Len(conn_io[d].heard) : ~ShownOn(c, conn_io[d].heard[k])

\* both connections are open and have heard speech, and each has been sent
\* its own fragment in a transcript and in a refreshed note
C25_Witness ==
    /\ \A c \in Conns :
          /\ conn_io[c].pc = "open"
          /\ conn_io[c].heard # <<>>
          /\ \E m \in 1..Len(conn_io[c].sent) :
                /\ conn_io[c].sent[m].type = "soap_update"
                /\ contains(conn_io[c].sent[m].soap.subjective, SpokenOn(c))
          /\ \E m \in 1..Len(conn_io[c].sent) :
                /\ conn_io[c].sent[m].type = "transcription"
                /\ contains(conn_io[c].sent[m].full_transcript, SpokenOn(c))
====
